---- MODULE Spec2Model ----
(***************************************************************************)
(* Period-segmented monetary correction and tax withholding of a          *)
(* precatorio: the /calcular endpoint of app.py and the command-line      *)
(* calculator app_4.py.                                                    *)
(*                                                                         *)
(* A Decimal is the record [m |-> mantissa, e |-> fractional digits] of    *)
(* value m / 10^e, kept normalised (no trailing zero), so that record      *)
(* equality is Python's Decimal ==.  Every operand of the model has far    *)
(* fewer than 28 significant digits, so the context precision of the       *)
(* code (prec = 28) never rounds a sum or a product: they are exact.       *)
(* An Optional[T] is the tuple <<>> (None) or <<x>>.                       *)
(***************************************************************************)
EXTENDS Integers, Sequences, FiniteSets, TLC

VARIABLES op, arg, ret, db, batch, provider, threads

vars == <<op, arg, ret, db, batch, provider, threads>>

----------------------------------------------------------------------------
(* Bounds of the inputs *)

\* longest monthly series of a period handed to compose_factors / calcular
MaxLen == 2

\* longest bracket table handed to calcular_ir
MaxBrackets == 2

\* app_4: pos_fim ranges over 11/2021 .. 11/2021 + MaxPos months
MaxPos == 3

\* largest amount, in thousandths, handed to the two cent quantizers
MaxMilli == 60

\* number of records of esaj_detalhe_processos
MaxRows == 2

\* number of threads that share one IndicesProvider
MaxThreads == 2

Threads == 1..MaxThreads

----------------------------------------------------------------------------
(* decimal.Decimal *)

RECURSIVE Pow10(_)
Pow10(n) == IF n = 0 THEN 1 ELSE 10 * Pow10(n - 1)

RECURSIVE Dec(_, _)
Dec(m, e) == IF e > 0 /\ m % 10 = 0 THEN Dec(m \div 10, e - 1)
             ELSE [m |-> m, e |-> e]

MaxOf(a, b) == IF a >= b THEN a ELSE b

\* mantissa of x at e fractional digits (e >= x.e)
Scaled(x, e) == x.m * Pow10(e - x.e)

DAdd(x, y) == LET e == MaxOf(x.e, y.e) IN Dec(Scaled(x, e) + Scaled(y, e), e)
DSub(x, y) == LET e == MaxOf(x.e, y.e) IN Dec(Scaled(x, e) - Scaled(y, e), e)
DMul(x, y) == Dec(x.m * y.m, x.e + y.e)
DLt(x, y)  == LET e == MaxOf(x.e, y.e) IN Scaled(x, e) < Scaled(y, e)
DLe(x, y)  == LET e == MaxOf(x.e, y.e) IN Scaled(x, e) <= Scaled(y, e)

Zero == Dec(0, 0)
One  == Dec(1, 0)

None == <<>>
Some(x) == <<x>>
IsNone(o) == o = <<>>
Val(o) == o[1]

\* Decimal.quantize(Decimal("0.01"), rounding=ROUND_HALF_EVEN)
QuantizeHalfEven(x) ==
    IF x.e <= 2 THEN x
    ELSE LET dv == Pow10(x.e - 2)
             q  == x.m \div dv
             r  == x.m % dv
         IN  Dec(IF 2 * r > dv THEN q + 1
                 ELSE IF 2 * r < dv THEN q
                 ELSE IF q % 2 = 0 THEN q ELSE q + 1, 2)

\* Decimal.quantize(Decimal("0.01"), rounding=ROUND_HALF_UP): ties away from zero
QuantizeHalfUp(x) ==
    IF x.e <= 2 THEN x
    ELSE LET dv == Pow10(x.e - 2)
             q  == x.m \div dv
             r  == x.m % dv
         IN  Dec(IF 2 * r > dv THEN q + 1
                 ELSE IF 2 * r < dv THEN q
                 ELSE IF x.m >= 0 THEN q + 1 ELSE q, 2)

----------------------------------------------------------------------------
(* app.py: nucleo numerico *)

\* D(x): a Decimal is returned as it is (every input of the model is one)
D(x) == x

quantize_cents(x) == QuantizeHalfEven(x)

\* annual_to_monthly_rate(a) = Decimal((1 + float(a)) ** (1/12)) - 1.  The binary
\* power is outside the exact decimal arithmetic of the model: the operator gives,
\* for the annual rates the model uses, that value rounded to 4 fractional digits
\* ((1 + 0.1268) ** (1/12) - 1 = 0.0099981..., (1 + 0.2682) ** (1/12) - 1 =
\* 0.0199986...).
annual_to_monthly_rate(a) ==
    CASE a = Dec(0, 0)    -> Dec(0, 0)
      [] a = Dec(1268, 4) -> Dec(100, 4)
      [] a = Dec(2682, 4) -> Dec(200, 4)

\* (mutant) the running total is quantized to cents after every month
RECURSIVE compose_loop_arredonda(_, _, _)
compose_loop_arredonda(total, series, extra_monthly_rate) ==
    IF series = <<>> THEN total
    ELSE compose_loop_arredonda(
             quantize_cents(DMul(total, DAdd(DAdd(One, D(Head(series))),
                                            D(extra_monthly_rate)))),
             Tail(series), extra_monthly_rate)

\* the loop of compose_factors: total *= 1 + D(m) + D(extra_monthly_rate)
RECURSIVE compose_loop(_, _, _)
compose_loop(total, series, extra_monthly_rate) ==
    IF series = <<>> THEN total
    ELSE compose_loop(DMul(total, DAdd(DAdd(One, D(Head(series))),
                                       D(extra_monthly_rate))),
                      Tail(series), extra_monthly_rate)

compose_factors(series, extra_monthly_rate) ==
    compose_loop(One, series, extra_monthly_rate)

----------------------------------------------------------------------------
(* app.py: calcular_ir *)

\* ("Nao" is the literal 'N\~ao' of the source, in ASCII)
IncideIRLiteral == {"Nao", "RRA", "Tabela progressiva", "Percentual informado"}

FaixaIR(ate, aliquota, parcela_deduzir) ==
    [ate |-> ate, aliquota |-> aliquota, parcela_deduzir |-> parcela_deduzir]

\* sorted(tabela_ir, key=lambda f: f.ate): a stable sort by ceiling
RECURSIVE insert_by_ate(_, _)
insert_by_ate(f, s) ==
    IF s = <<>> THEN <<f>>
    ELSE IF DLt(f.ate, Head(s).ate) THEN <<f>> \o s
    ELSE <<Head(s)>> \o insert_by_ate(f, Tail(s))

\* (mutant) the table is used in the order it was sent
sorted_by_ate_sem_ordenar(t) == t

RECURSIVE sorted_by_ate(_)
sorted_by_ate(t) ==
    IF t = <<>> THEN <<>>
    ELSE insert_by_ate(t[Len(t)], sorted_by_ate(SubSeq(t, 1, Len(t) - 1)))

\* for faixa in faixas: if base <= faixa.ate: faixa_aplicada = faixa; break
RECURSIVE first_faixa(_, _)
first_faixa(faixas, base) ==
    IF faixas = <<>> THEN None
    ELSE IF DLe(base, Head(faixas).ate) THEN Some(Head(faixas))
    ELSE first_faixa(Tail(faixas), base)

NoticeSemRate == "incide_ir='Percentual informado' mas 'ir_rate' nao foi informado (>0)."
NoticeSemTabela(modo) ==
    IF modo = "RRA" THEN "incide_ir='RRA' mas 'tabela_ir' nao foi fornecida. IR=0 aplicado."
    ELSE "incide_ir='Tabela progressiva' mas 'tabela_ir' nao foi fornecida. IR=0 aplicado."
NoticeDesconhecido == "Modo de IR desconhecido."

\* (mutant) only a missing rate is reported: a rate <= 0 is applied
ir_percentual_sem_guarda(base_juros, ir_rate) ==
    IF IsNone(ir_rate)
    THEN [ir |-> D(Zero), notice |-> Some(NoticeSemRate)]
    ELSE [ir |-> quantize_cents(DMul(base_juros, Val(ir_rate))), notice |-> None]

\* modo 'Percentual informado'
ir_percentual(base_juros, ir_rate) ==
    IF IsNone(ir_rate) \/ Val(ir_rate) = Zero \/ DLe(Val(ir_rate), Zero)
    THEN [ir |-> D(Zero), notice |-> Some(NoticeSemRate)]
    ELSE [ir |-> quantize_cents(DMul(base_juros, Val(ir_rate))), notice |-> None]

\* the bracket applied: the first of the sorted table with base <= ate, else the last
faixa_aplicada(tabela, base) ==
    LET faixas == sorted_by_ate(tabela)
        found  == first_faixa(faixas, base)
    IN  IF IsNone(found) THEN faixas[Len(faixas)] ELSE Val(found)

\* (mutant) the deduction is charged and the rated base subtracted from it
ir_tabela_invertido(modo, base_juros, tabela_ir) ==
    IF IsNone(tabela_ir) \/ Len(Val(tabela_ir)) = 0
    THEN [ir |-> D(Zero), notice |-> Some(NoticeSemTabela(modo))]
    ELSE LET faixa == faixa_aplicada(Val(tabela_ir), base_juros)
             raw == DSub(faixa.parcela_deduzir, DMul(base_juros, faixa.aliquota))
             ir  == IF DLt(raw, Zero) THEN D(Zero) ELSE raw
         IN  [ir |-> quantize_cents(ir), notice |-> None]

\* modo 'RRA' / 'Tabela progressiva'
ir_tabela(modo, base_juros, tabela_ir) ==
    IF IsNone(tabela_ir) \/ Len(Val(tabela_ir)) = 0
    THEN [ir |-> D(Zero), notice |-> Some(NoticeSemTabela(modo))]
    ELSE LET faixa == faixa_aplicada(Val(tabela_ir), base_juros)
             raw == DSub(DMul(base_juros, faixa.aliquota), faixa.parcela_deduzir)
             ir  == IF DLt(raw, Zero) THEN D(Zero) ELSE raw
         IN  [ir |-> quantize_cents(ir), notice |-> None]

\* (mutant) an unknown modo yields IR = 0 with no notice
calcular_ir_silencioso(modo, base_juros, ir_rate, tabela_ir) ==
    IF modo = "Nao" THEN [ir |-> D(Zero), notice |-> None]
    ELSE IF modo = "Percentual informado" THEN ir_percentual(base_juros, ir_rate)
    ELSE IF modo \in {"RRA", "Tabela progressiva"}
         THEN ir_tabela(modo, base_juros, tabela_ir)
    ELSE [ir |-> D(Zero), notice |-> None]

\* the (valor_ir, aviso_opcional) pair that calcular_ir returns
calcular_ir(modo, base_juros, ir_rate, tabela_ir) ==
    IF modo = "Nao" THEN [ir |-> D(Zero), notice |-> None]
    ELSE IF modo = "Percentual informado" THEN ir_percentual(base_juros, ir_rate)
    ELSE IF modo \in {"RRA", "Tabela progressiva"}
         THEN ir_tabela(modo, base_juros, tabela_ir)
    ELSE [ir |-> D(Zero), notice |-> Some(NoticeDesconhecido)]

----------------------------------------------------------------------------
(* app.py: POST /calcular *)

IndiceLiteral == {"IPCA-E", "TR", "SELIC", "INPC", "Poupanca"}
TipoLiteral   == {"Alimentar", "Comum"}

\* the request body is parsed into CalcInput before calcular runs: a field
\* outside its Literal type is answered with a validation error
valid_CalcInput(payload) ==
    /\ payload.tipo \in TipoLiteral
    /\ payload.indice_usado_sentenca \in IndiceLiteral
    /\ payload.incide_ir \in IncideIRLiteral

\* the values calcular computes before it builds its CalcOutput
calcular_locals(payload) ==
    LET \* 1) antes da formacao: indice + juros_mora (anual -> mensal)
        r_mensal_antes == annual_to_monthly_rate(payload.juros_mora)
        fator_antes == compose_factors(payload.fatores_indice.antes_formacao,
                                       r_mensal_antes)
        principal_apos_antes == quantize_cents(DMul(payload.principal, fator_antes))
        juros_antes == quantize_cents(DSub(principal_apos_antes, payload.principal))
        \* 2) periodo de graca: somente indice
        fator_graca == compose_factors(payload.fatores_indice.graca, D(Zero))
        principal_apos_graca == quantize_cents(DMul(principal_apos_antes, fator_graca))
        \* 3) apos o grace: indice + juros_aa_pos_grace
        r_mensal_pos == annual_to_monthly_rate(payload.juros_aa_pos_grace)
        fator_pos == compose_factors(payload.fatores_indice.pos_graca, r_mensal_pos)
        principal_final == quantize_cents(DMul(principal_apos_graca, fator_pos))
        \* isolar juros posteriores: (com juros) - (somente indice)
        fator_ipca_pos_apenas == compose_factors(payload.fatores_indice.pos_graca,
                                                 D(Zero))
        apenas_indice_pos == quantize_cents(DMul(principal_apos_graca,
                                                 fator_ipca_pos_apenas))
        juros_posteriores == quantize_cents(DSub(principal_final, apenas_indice_pos))
        valor_bruto == principal_final
        irn == calcular_ir(payload.incide_ir, juros_posteriores,
                           payload.ir_rate, payload.tabela_ir)
        base_liquida == quantize_cents(DSub(valor_bruto, irn.ir))
    IN  [principal_apos_antes  |-> principal_apos_antes,
         juros_antes           |-> juros_antes,
         principal_apos_graca  |-> principal_apos_graca,
         principal_final       |-> principal_final,
         juros_posteriores     |-> juros_posteriores,
         valor_bruto           |-> valor_bruto,
         ir                    |-> irn.ir,
         notice                |-> irn.notice,
         base_liquida          |-> base_liquida,
         valor_liquido_cedivel |-> base_liquida]

\* return CalcOutput(...)
CalcOutput(payload, l) ==
    [precatorio             |-> payload.precatorio,
     tipo                   |-> payload.tipo,
     ano_vencimento         |-> payload.ano_vencimento,
     indice_usado_sentenca  |-> payload.indice_usado_sentenca,
     incide_ir              |-> payload.incide_ir,
     principal_atualizado   |-> l.principal_final,
     juros_mora_antes       |-> l.juros_antes,
     juros_mora_posteriores |-> l.juros_posteriores,
     valor_bruto_precatorio |-> l.valor_bruto,
     ir_calculado           |-> l.ir,
     base_calculo_liquida   |-> l.base_liquida,
     valor_liquido_cedivel  |-> l.valor_liquido_cedivel,
     ir_notice              |-> l.notice]

\* (mutant) the interest after the grace period is taken from the principal
\* before the period, the index correction left in it
calcular_sem_isolar(payload) ==
    LET l == calcular_locals(payload)
    IN  CalcOutput(payload,
                   [l EXCEPT !.juros_posteriores =
                        quantize_cents(DSub(l.principal_final, l.principal_apos_graca))])

\* (mutant) the net value is what is left of the taxed interest
calcular_liquido_dos_juros(payload) ==
    LET l == calcular_locals(payload)
        liquido == quantize_cents(DSub(l.juros_posteriores, l.ir))
    IN  CalcOutput(payload, [l EXCEPT !.base_liquida = liquido,
                                      !.valor_liquido_cedivel = liquido])

\* (mutant) the notice of calcular_ir is not passed on
calcular_sem_aviso(payload) ==
    CalcOutput(payload, [calcular_locals(payload) EXCEPT !.notice = None])

\* the CalcOutput that calcular returns for a parsed CalcInput
calcular(payload) == CalcOutput(payload, calcular_locals(payload))

----------------------------------------------------------------------------
(* app_4.py: datas.  A date is <<year, month>>: every date the calculator *)
(* builds is the first day of its month.                                  *)

add_months(dt, n) ==
    <<dt[1] + ((dt[2] - 1 + n) \div 12), ((dt[2] - 1 + n) % 12) + 1>>

DateLt(a, b) == a[1] < b[1] \/ (a[1] = b[1] /\ a[2] < b[2])

\* while cur < end_exclusive: out.append((cur.year, cur.month)); cur = add_months(cur, 1)
\* (cur is bound to the value of add_months(start, 1) before the next round)
RECURSIVE month_range(_, _)
month_range(start, end_exclusive) ==
    IF DateLt(start, end_exclusive)
    THEN <<start>> \o (CHOOSE out \in {month_range(cur, end_exclusive) :
                                       cur \in {add_months(start, 1)}} : TRUE)
    ELSE <<>>

first_day_next_month(dt) == add_months(<<dt[1], dt[2]>>, 1)

\* add_months on a date <<year, month, day>>: the result is date(y, m, 1)
add_months_date(dt, n) ==
    <<dt[1] + ((dt[2] - 1 + n) \div 12), ((dt[2] - 1 + n) % 12) + 1, 1>>

\* date.__lt__ on <<year, month, day>>
date_lt(a, b) ==
    \/ a[1] < b[1]
    \/ a[1] = b[1] /\ a[2] < b[2]
    \/ a[1] = b[1] /\ a[2] = b[2] /\ a[3] < b[3]

\* month_range with the loop test "cur <= end_exclusive"
RECURSIVE month_range_inclusive(_, _)
month_range_inclusive(start, end_exclusive) ==
    IF date_lt(start, end_exclusive) \/ start = end_exclusive
    THEN <<<<start[1], start[2]>>>>
         \o (CHOOSE out \in {month_range_inclusive(cur, end_exclusive) :
                              cur \in {add_months_date(start, 1)}} : TRUE)
    ELSE <<>>

\* month_range on dates of any day of the month: the first round compares
\* start itself, every later round the first day of a month
RECURSIVE month_range_date(_, _)
month_range_date(start, end_exclusive) ==
    IF date_lt(start, end_exclusive)
    THEN <<<<start[1], start[2]>>>>
         \o (CHOOSE out \in {month_range_date(cur, end_exclusive) :
                              cur \in {add_months_date(start, 1)}} : TRUE)
    ELSE <<>>

----------------------------------------------------------------------------
(* app_4.py: numeros *)

\* (mutant) a Decimal loses its digits after the first fractional one
d_uma_casa(x) == IF x.e > 1 THEN Dec(x.m \div Pow10(x.e - 1), 1) ELSE x

\* d(x): a Decimal is returned as it is
d(x) == x

q2(x) == QuantizeHalfUp(d(x))

\* x / Decimal(k) for a quotient that terminates within two more digits (the
\* operands of the model are chosen so: the division is then exact in the code)
DDiv(x, k) == Dec((x.m * 100) \div k, x.e + 2)

----------------------------------------------------------------------------
(* app_4.py: Indices.  fator_mensal is a function (ano, mes) -> multiplicador *)

\* (mutant) a month that is not in fator_mensal is skipped
RECURSIVE product_loop_ignora_falta(_, _, _, _)
product_loop_ignora_falta(fator_mensal, ym_list, i, prod) ==
    IF i > Len(ym_list) THEN [raised |-> FALSE, value |-> prod]
    ELSE CHOOSE out \in {product_loop_ignora_falta(fator_mensal, ym_list, j, p) :
                              j \in {i + 1},
                              p \in {IF ym_list[i] \in DOMAIN fator_mensal
                                     THEN DMul(prod, fator_mensal[ym_list[i]])
                                     ELSE prod}} : TRUE

\* Indices.product: the product of the factors, or the KeyError of the first
\* month that is not in fator_mensal (i and prod are bound to their values
\* before the next round)
RECURSIVE product_loop(_, _, _, _)
product_loop(fator_mensal, ym_list, i, prod) ==
    IF i > Len(ym_list) THEN [raised |-> FALSE, value |-> prod]
    ELSE IF ym_list[i] \notin DOMAIN fator_mensal
         THEN [raised |-> TRUE, error |-> "KeyError", key |-> ym_list[i]]
         ELSE CHOOSE out \in {product_loop(fator_mensal, ym_list, j, p) :
                                   j \in {i + 1},
                                   p \in {DMul(prod, fator_mensal[ym_list[i]])}} : TRUE

product(fator_mensal, ym_list) == product_loop(fator_mensal, ym_list, 1, One)

last_available_month(fator_mensal) ==
    CHOOSE k \in DOMAIN fator_mensal :
        \A j \in DOMAIN fator_mensal : ~DateLt(k, j)

----------------------------------------------------------------------------
(* app_4.py: periodos *)

\* (mutant) the period stops before December of the reference year
periodos_antes_formacao_sem_dezembro(ano_venc) ==
    [inicio   |-> <<ano_venc - 1, 7>>,
     fim_excl |-> <<ano_venc, 12>>]

periodos_antes_formacao(ano_venc) ==
    [inicio   |-> <<ano_venc - 1, 7>>,
     fim_excl |-> first_day_next_month(<<ano_venc, 12>>)]

periodos_antes_full(ano_venc) ==
    [inicio   |-> <<ano_venc - 1, 7>>,
     fim_excl |-> <<2021, 12>>]

periodo_pos(pos_fim, fator_mensal) ==
    LET fim == IF IsNone(pos_fim) THEN last_available_month(fator_mensal)
               ELSE Val(pos_fim)
    IN  [inicio   |-> <<2021, 12>>,
         fim_excl |-> first_day_next_month(<<fim[1], fim[2]>>)]

\* the periods calcular of app_4.py works on (and prints): the boundaries and
\* the months of ANTES and of POS
calcular_periodos(ano_venc, antes_mode, pos_fim, fator_mensal) ==
    LET antes == IF antes_mode = "full" THEN periodos_antes_full(ano_venc)
                 ELSE periodos_antes_formacao(ano_venc)
        pos == periodo_pos(pos_fim, fator_mensal)
    IN  [inicio_antes   |-> antes.inicio,
         fim_antes_excl |-> antes.fim_excl,
         meses_antes    |-> month_range(antes.inicio, antes.fim_excl),
         inicio_pos     |-> pos.inicio,
         fim_pos_excl   |-> pos.fim_excl,
         meses_pos      |-> month_range(pos.inicio, pos.fim_excl)]

----------------------------------------------------------------------------
(* app_4.py: calculo *)

\* (mutant) every month of the period counts for the simple interest
fator_juros_simples_sem_offset(juros_aa_pos, n_pos) ==
    DAdd(One, DDiv(DMul(juros_aa_pos, Dec(n_pos, 0)), 12))

\* 2% a.a. simples: meses para 2% = (n_meses_pos - 1)
fator_juros_simples(juros_aa_pos, n_pos) ==
    LET n_meses_para_2aa == MaxOf(n_pos - 1, 0)
    IN  DAdd(One, DDiv(DMul(juros_aa_pos, Dec(n_meses_para_2aa, 0)), 12))

\* what calcular of app_4.py computes once both index factors are known
calcular_valores(principal, juros_aa_pos, juros_mora_ant, fator_antes, fator_ipca_pos, n_antes, n_pos) ==
    LET fator_juros_simples_pos == fator_juros_simples(juros_aa_pos, n_pos)
        \* principal
        principal_apos_antes == q2(DMul(principal, fator_antes))
        principal_pos_ipca   == q2(DMul(principal_apos_antes, fator_ipca_pos))
        principal_final      == q2(DMul(principal_pos_ipca, fator_juros_simples_pos))
        \* JM anteriores (corrigidos como principal)
        jm_ant_base == d(juros_mora_ant)
        jm_ant_apos_antes == q2(DMul(jm_ant_base, fator_antes))
        jm_ant_corrigido  == q2(DMul(DMul(jm_ant_apos_antes, fator_ipca_pos),
                                     fator_juros_simples_pos))
        total_corrigido == q2(DAdd(principal_final, jm_ant_corrigido))
    IN  [fator_antes             |-> fator_antes,
         fator_ipca_pos          |-> fator_ipca_pos,
         fator_juros_simples_pos |-> fator_juros_simples_pos,
         fator_total_principal   |-> DMul(DMul(fator_antes, fator_ipca_pos),
                                          fator_juros_simples_pos),
         principal_final         |-> principal_final,
         jm_ant_corrigido        |-> jm_ant_corrigido,
         total_corrigido         |-> total_corrigido,
         meses_antes             |-> n_antes,
         meses_pos               |-> n_pos]

\* (mutant) the months of a period are looked up even when its factor is
\* overridden
calcular_app4_consulta_sempre(principal, ano_venc, fator_mensal, pos_fim, juros_aa_pos, juros_mora_ant, antes_mode, override_antes, override_pos_ipca) ==
    LET antes == IF antes_mode = "full" THEN periodos_antes_full(ano_venc)
                 ELSE periodos_antes_formacao(ano_venc)
        meses_antes == month_range(antes.inicio, antes.fim_excl)
        pos == periodo_pos(pos_fim, fator_mensal)
        meses_pos == month_range(pos.inicio, pos.fim_excl)
        lido_antes == product(fator_mensal, meses_antes)
        lido_pos == product(fator_mensal, meses_pos)
        fator_antes == IF ~IsNone(override_antes) THEN d(Val(override_antes))
                       ELSE lido_antes.value
        fator_ipca_pos == IF ~IsNone(override_pos_ipca) THEN d(Val(override_pos_ipca))
                          ELSE lido_pos.value
    IN  IF lido_antes.raised THEN lido_antes
        ELSE IF lido_pos.raised THEN lido_pos
        ELSE [raised |-> FALSE,
              value  |-> calcular_valores(principal, juros_aa_pos, juros_mora_ant,
                                          fator_antes, fator_ipca_pos,
                                          Len(meses_antes), Len(meses_pos))]

\* calcular of app_4.py: [raised |-> FALSE, value |-> Resultado], or the KeyError
\* that Indices.product raised
calcular_app4(principal, ano_venc, fator_mensal, pos_fim, juros_aa_pos, juros_mora_ant, antes_mode, override_antes, override_pos_ipca) ==
    LET antes == IF antes_mode = "full" THEN periodos_antes_full(ano_venc)
                 ELSE periodos_antes_formacao(ano_venc)
        meses_antes == month_range(antes.inicio, antes.fim_excl)
        pos == periodo_pos(pos_fim, fator_mensal)
        meses_pos == month_range(pos.inicio, pos.fim_excl)
        prod_antes ==
            IF ~IsNone(override_antes)
            THEN [raised |-> FALSE, value |-> d(Val(override_antes))]
            ELSE IF meses_antes # <<>> THEN product(fator_mensal, meses_antes)
            ELSE [raised |-> FALSE, value |-> One]
        prod_pos ==
            IF ~IsNone(override_pos_ipca)
            THEN [raised |-> FALSE, value |-> d(Val(override_pos_ipca))]
            ELSE IF meses_pos # <<>> THEN product(fator_mensal, meses_pos)
            ELSE [raised |-> FALSE, value |-> One]
    IN  IF prod_antes.raised THEN prod_antes
        ELSE IF prod_pos.raised THEN prod_pos
        ELSE [raised |-> FALSE,
              value  |-> calcular_valores(principal, juros_aa_pos, juros_mora_ant,
                                          prod_antes.value, prod_pos.value,
                                          Len(meses_antes), Len(meses_pos))]

----------------------------------------------------------------------------
(* app_4.py: CLI.  args.pos_fim is None or the text of --pos-fim, held as  *)
(* the sequence of its fields between the '-' (the numbers they denote).   *)

\* y, m = args.pos_fim.split("-"): anything but two fields is a ValueError
parse_pos_fim(pos_fim_arg) ==
    IF IsNone(pos_fim_arg) THEN [raised |-> FALSE, value |-> None]
    ELSE IF Len(Val(pos_fim_arg)) # 2 THEN [raised |-> TRUE, error |-> "ValueError"]
    ELSE [raised |-> FALSE, value |-> Some(<<Val(pos_fim_arg)[1], Val(pos_fim_arg)[2]>>)]

\* (mutant) an end after the last month of the CSV is always adjusted
ajusta_pos_fim_sem_opt_in(pos_fim_tuple, last, clip_pos) ==
    IF ~IsNone(pos_fim_tuple) /\ DateLt(last, Val(pos_fim_tuple))
    THEN [raised |-> FALSE, pos_fim |-> last,
          aviso |-> IF clip_pos THEN Some(<<Val(pos_fim_tuple), last>>) ELSE None]
    ELSE [raised |-> FALSE,
          pos_fim |-> IF IsNone(pos_fim_tuple) THEN last ELSE Val(pos_fim_tuple),
          aviso |-> None]

\* main: the end of the POS period against the last month of the CSV
ajusta_pos_fim(pos_fim_tuple, last, clip_pos) ==
    IF ~IsNone(pos_fim_tuple) /\ DateLt(last, Val(pos_fim_tuple))
    THEN IF clip_pos
         THEN [raised |-> FALSE, pos_fim |-> last,
               aviso |-> Some(<<Val(pos_fim_tuple), last>>)]
         ELSE [raised |-> TRUE, error |-> "KeyError", key |-> Val(pos_fim_tuple),
               ultimo |-> last]
    ELSE [raised |-> FALSE,
          pos_fim |-> IF IsNone(pos_fim_tuple) THEN last ELSE Val(pos_fim_tuple),
          aviso |-> None]

\* main of app_4.py over the index table read from --indices-csv: what it
\* prints (the notice, the periods, the Resultado) or the error it ends with
main_app4(principal, ano_venc, fator_mensal, pos_fim_arg, juros_aa_pos, juros_mora_ant, antes_mode, override_antes, override_pos_ipca, clip_pos) ==
    LET parsed == parse_pos_fim(pos_fim_arg)
    IN  IF parsed.raised THEN parsed
        ELSE LET a == ajusta_pos_fim(parsed.value, last_available_month(fator_mensal),
                                     clip_pos)
             IN  IF a.raised THEN a
                 ELSE LET r == calcular_app4(principal, ano_venc, fator_mensal,
                                             Some(a.pos_fim), juros_aa_pos,
                                             juros_mora_ant, antes_mode,
                                             override_antes, override_pos_ipca)
                      IN  IF r.raised
                          THEN [raised |-> TRUE, error |-> r.error, key |-> r.key,
                                aviso |-> a.aviso]
                          ELSE [raised |-> FALSE, aviso |-> a.aviso,
                                pos_fim |-> a.pos_fim,
                                periodos |-> calcular_periodos(ano_venc, antes_mode,
                                                Some(a.pos_fim), fator_mensal),
                                value |-> r.value]

----------------------------------------------------------------------------
(* indices_provider.py.  A CSV file is the sequence of its rows, or None   *)
(* when the file does not exist; a row is [indice, ano, mes,               *)
(* variacao_mensal], variacao_mensal being the Decimal its text denotes    *)
(* or None when Decimal() rejects the text.  A date is <<year, month,      *)
(* day>>.                                                                   *)

\* CONVERSAO DEFENSIVA: |val| >= 0.02 is taken for a percentage
conversao_defensiva(val) ==
    LET abs == IF val.m < 0 THEN Dec(0 - val.m, val.e) ELSE val
    IN  IF DLe(Dec(2, 2), abs) THEN Dec(val.m, val.e + 2) ELSE val

\* the for loop of _load: a row that does not parse is skipped, a later row
\* of the same (indice, ano, mes) replaces an earlier one
RECURSIVE load_loop(_, _, _)
load_loop(rows, i, cache) ==
    IF i > Len(rows) THEN cache
    ELSE LET row == rows[i]
             key == <<row.indice, row.ano, row.mes>>
             nxt == IF IsNone(row.variacao_mensal) THEN cache
                    ELSE [k \in DOMAIN cache \cup {key} |->
                             IF k = key
                             THEN conversao_defensiva(Val(row.variacao_mensal))
                             ELSE cache[k]]
         IN  CHOOSE out \in {load_loop(rows, j, c) : j \in {i + 1}, c \in {nxt}} : TRUE

\* one round of the for loop of _load, on the cache as it is at that moment
load_row(cache, row) == load_loop(<<row>>, 1, cache)

\* IndicesProvider._load on a provider that has not loaded yet
load(csv) ==
    IF IsNone(csv) THEN [raised |-> TRUE, error |-> "FileNotFoundError"]
    ELSE [raised |-> FALSE, value |-> load_loop(Val(csv), 1, <<>>)]

DateLt3(a, b) ==
    \/ a[1] < b[1]
    \/ a[1] = b[1] /\ a[2] < b[2]
    \/ a[1] = b[1] /\ a[2] = b[2] /\ a[3] < b[3]

\* the while loop of get_series
RECURSIVE get_series_loop(_, _, _, _, _)
get_series_loop(cache, indice, cur, end, series) ==
    IF ~DateLt3(cur, end) THEN [raised |-> FALSE, value |-> series]
    ELSE LET key == <<indice, cur[1], cur[2]>>
         IN  IF key \notin DOMAIN cache
             THEN [raised |-> TRUE, error |-> "KeyError", key |-> key]
             ELSE LET ny == cur[1] + (IF cur[2] = 12 THEN 1 ELSE 0)
                      nm == IF cur[2] = 12 THEN 1 ELSE cur[2] + 1
                  IN  CHOOSE out \in {get_series_loop(cache, indice, c, end, s) :
                                          c \in {<<ny, nm, 1>>},
                                          s \in {Append(series, cache[key])}} : TRUE

\* IndicesProvider.get_series of a fresh provider over the file csv
get_series(csv, indice, start, end) ==
    LET loaded == load(csv)
    IN  IF loaded.raised THEN loaded
        ELSE get_series_loop(loaded.value, indice, <<start[1], start[2], 1>>, end, <<>>)

\* one round of the while loop of get_series, on the cache as it is at that
\* moment: the thread goes on with the next month, returns, or raises
read_month(cache, th) ==
    IF ~DateLt3(th.cur, th.end) THEN [th EXCEPT !.pc = "returned"]
    ELSE LET key == <<th.indice, th.cur[1], th.cur[2]>>
             ny == th.cur[1] + (IF th.cur[2] = 12 THEN 1 ELSE 0)
             nm == IF th.cur[2] = 12 THEN 1 ELSE th.cur[2] + 1
         IN  IF key \notin DOMAIN cache
             THEN [th EXCEPT !.pc = "raised", !.error = "KeyError"]
             ELSE [th EXCEPT !.series = Append(@, cache[key]), !.cur = <<ny, nm, 1>>]

\* a thread that is not inside get_series
ThreadIdle ==
    [pc |-> "idle", indice |-> "", start |-> <<>>, end |-> <<>>, i |-> 0,
     cur |-> <<>>, series |-> <<>>, error |-> ""]

----------------------------------------------------------------------------
(* Decimal at the context precision.  The products above are exact: their  *)
(* operands are so short that no result passes the 28 digits of the        *)
(* context.  A long series does pass them, and every multiplication then   *)
(* rounds its result to 28 significant digits (ROUND_HALF_EVEN, the         *)
(* rounding of the default context).  A coefficient of that size is held   *)
(* as the sequence of its decimal digits, the least significant first:     *)
(* [dg |-> digits, e |-> number of fractional digits].                     *)

\* getcontext().prec
Prec == 28

RECURSIVE DigitsOf(_)
DigitsOf(n) == IF n = 0 THEN <<>> ELSE <<n % 10>> \o DigitsOf(n \div 10)

\* the digits of dg * k + carry, from digit i on (k a short coefficient)
RECURSIVE MulDigits(_, _, _, _)
MulDigits(dg, k, i, carry) ==
    IF i > Len(dg) THEN DigitsOf(carry)
    ELSE LET v == dg[i] * k + carry
         IN  <<v % 10>> \o (CHOOSE out \in {MulDigits(dg, k, j, c) :
                                             j \in {i + 1}, c \in {v \div 10}} : TRUE)

RECURSIVE IncDigits(_)
IncDigits(dg) ==
    IF dg = <<>> THEN <<1>>
    ELSE IF dg[1] < 9 THEN <<dg[1] + 1>> \o Tail(dg)
    ELSE <<0>> \o IncDigits(Tail(dg))

\* a coefficient of more than Prec digits is rounded half to even to Prec digits
RoundToPrec(x) ==
    LET n == Len(x.dg)
        k == n - Prec
    IN  IF k <= 0 THEN x
        ELSE LET kept == SubSeq(x.dg, k + 1, n)
                 rest == \E i \in 1..(k - 1) : x.dg[i] # 0
                 up   == \/ x.dg[k] > 5
                         \/ x.dg[k] = 5 /\ (rest \/ kept[1] % 2 = 1)
                 r    == IF up THEN IncDigits(kept) ELSE kept
             IN  IF Len(r) > Prec THEN [dg |-> Tail(r), e |-> x.e - k - 1]
                 ELSE [dg |-> r, e |-> x.e - k]

\* total * f in the context, f a positive Decimal with a short coefficient
CtxMul(total, f) ==
    RoundToPrec([dg |-> MulDigits(total.dg, f.m, 1, 0), e |-> total.e + f.e])

\* the same number without its trailing fractional zeros (Decimal == compares
\* the numbers, not their digits)
RECURSIVE CtxNormal(_)
CtxNormal(x) ==
    IF x.e > 0 /\ x.dg # <<>> /\ x.dg[1] = 0
    THEN CtxNormal([dg |-> Tail(x.dg), e |-> x.e - 1])
    ELSE x

CtxOne == [dg |-> <<1>>, e |-> 0]

\* the for loop of compose_factors at the context precision
RECURSIVE compose_loop_ctx(_, _, _, _)
compose_loop_ctx(total, series, i, extra_monthly_rate) ==
    IF i > Len(series) THEN total
    ELSE CHOOSE out \in
           {compose_loop_ctx(t, series, j, extra_monthly_rate) :
                j \in {i + 1},
                t \in {CtxMul(total, DAdd(DAdd(One, D(series[i])),
                                          D(extra_monthly_rate)))}} : TRUE

compose_factors_ctx(series, extra_monthly_rate) ==
    CtxNormal(compose_loop_ctx(CtxOne, series, 1, extra_monthly_rate))

\* the for loop of Indices.product at the context precision, every month of
\* ym_list being in fator_mensal
RECURSIVE product_loop_ctx(_, _, _, _)
product_loop_ctx(fator_mensal, ym_list, i, prod) ==
    IF i > Len(ym_list) THEN prod
    ELSE CHOOSE out \in
           {product_loop_ctx(fator_mensal, ym_list, j, p) :
                j \in {i + 1},
                p \in {CtxMul(prod, fator_mensal[ym_list[i]])}} : TRUE

product_ctx(fator_mensal, ym_list) ==
    CtxNormal(product_loop_ctx(fator_mensal, ym_list, 1, CtxOne))

----------------------------------------------------------------------------
(* The console of app_4.py.  A text is the sequence of its characters,     *)
(* each a string of one character; "A'", "O'", "a'" and "o'" stand for the *)
(* letters A, O, a and o under an acute accent.  An output is the sequence *)
(* of its lines.                                                            *)

Digit == <<"0", "1", "2", "3", "4", "5", "6", "7", "8", "9">>
IsDigit(c) == \E i \in 1..10 : Digit[i] = c
DigitValue(c) == (CHOOSE i \in 1..10 : Digit[i] = c) - 1

MinOf(S) == CHOOSE x \in S : \A y \in S : x <= y

\* str(n), n >= 0
RECURSIVE str_int(_)
str_int(n) ==
    IF n < 10 THEN <<Digit[n + 1]>>
    ELSE str_int(n \div 10) \o <<Digit[(n % 10) + 1]>>

\* the 0Nd of a format specification
zero_pad(s, width) == [i \in 1..(width - Len(s)) |-> "0"] \o s

\* f"{x:.Nf}" of a Decimal: N fractional digits, ROUND_HALF_EVEN
format_fixed(x, places) ==
    LET abs == IF x.m < 0 THEN 0 - x.m ELSE x.m
        scaled == IF x.e <= places THEN abs * Pow10(places - x.e)
                  ELSE LET dv == Pow10(x.e - places)
                           q  == abs \div dv
                           r  == abs % dv
                       IN  IF 2 * r > dv \/ (2 * r = dv /\ q % 2 = 1)
                           THEN q + 1 ELSE q
    IN  (IF x.m < 0 THEN <<"-">> ELSE <<>>)
        \o str_int(scaled \div Pow10(places))
        \o (IF places = 0 THEN <<>>
            ELSE <<".">> \o zero_pad(str_int(scaled % Pow10(places)), places))

\* str(x) of a Decimal (a Decimal of the model carries no trailing zero)
str_decimal(x) == format_fixed(x, x.e)

\* the ',' of f"{n:,}", already turned into '.'
RECURSIVE group_thousands(_)
group_thousands(n) ==
    IF n < 1000 THEN str_int(n)
    ELSE group_thousands(n \div 1000) \o <<".">> \o zero_pad(str_int(n % 1000), 3)

\* br_money: f"{q2(x):,.2f}" with ',' and '.' exchanged
br_money(x) ==
    LET q == q2(x)
        abs == (IF q.m < 0 THEN 0 - q.m ELSE q.m) * Pow10(2 - q.e)
    IN  (IF q.m < 0 THEN <<"-">> ELSE <<>>)
        \o group_thousands(abs \div 100) \o <<",">>
        \o zero_pad(str_int(abs % 100), 2)

\* f"{dt:%Y-%m}"
ym_text(dt) == zero_pad(str_int(dt[1]), 4) \o <<"-">> \o zero_pad(str_int(dt[2]), 2)

\* what Indices.product prints with debug=True: one line per month, up to the
\* month that is not in fator_mensal
product_debug(fator_mensal, ym_list, label) ==
    LET absent == {i \in DOMAIN ym_list : ym_list[i] \notin DOMAIN fator_mensal}
        n == IF absent = {} THEN Len(ym_list) ELSE MinOf(absent) - 1
    IN  [i \in 1..n |->
            <<" ", " ">> \o label \o <<" ", " ">> \o ym_text(ym_list[i])
                \o <<" ", " ", "f", "a", "t", "o", "r", "=">>
            \o str_decimal(fator_mensal[ym_list[i]])]

Dashes == [i \in 1..45 |-> "-"]

\* the prints of calcular after the factors: >>> CALCULO DETALHADO
calculo_detalhado(principal, juros_aa_pos, juros_mora_ant, fator_antes, fator_ipca_pos, n_pos) ==
    LET n_meses_para_2aa == MaxOf(n_pos - 1, 0)
        fator_juros_simples_pos == fator_juros_simples(juros_aa_pos, n_pos)
        principal_apos_antes == q2(DMul(principal, fator_antes))
        principal_pos_ipca   == q2(DMul(principal_apos_antes, fator_ipca_pos))
        principal_final      == q2(DMul(principal_pos_ipca, fator_juros_simples_pos))
        jm_ant_base == d(juros_mora_ant)
        jm_ant_apos_antes == q2(DMul(jm_ant_base, fator_antes))
        jm_ant_corrigido  == q2(DMul(DMul(jm_ant_apos_antes, fator_ipca_pos),
                                     fator_juros_simples_pos))
        total_corrigido == q2(DAdd(principal_final, jm_ant_corrigido))
    IN  << <<>>,
           <<">", ">", ">", " ", "C", "A'", "L", "C", "U", "L", "O", " ",
               "D", "E", "T", "A", "L", "H", "A", "D", "O">>,
           <<"F", "a", "t", "o", "r", " ", "I", "P", "C", "A", "-", "E",
               " ", "A", "N", "T", "E", "S", " ", ".", ".", ".", ".", ".",
               ".", ".", ".", ".", ".", ".", ".", ":", " ">> \o
               format_fixed(fator_antes, 8),
           <<"F", "a", "t", "o", "r", " ", "I", "P", "C", "A", "-", "E",
               " ", "P", "O'", "S", " ", ".", ".", ".", ".", ".", ".", ".",
               ".", ".", ".", ".", ".", ".", ".", ":", " ">> \o
               format_fixed(fator_ipca_pos, 8),
           <<"F", "a", "t", "o", "r", " ", "2", "%", " ", "a", ".", "a",
               ".", " ", "(", "s", "i", "m", "p", "l", "e", "s", ")", " ",
               ".", ".", ".", ".", ".", ".", ".", ":", " ">> \o
               format_fixed(fator_juros_simples_pos, 8)
               \o <<" ", " ", "(", "m", "e", "s", "e", "s", " ", "p", "a",
                   "r", "a", " ", "2", "%", "=">> \o str_int(n_meses_para_2aa)
                   \o <<")">>,
           Dashes,
           <<"P", "r", "i", "n", "c", "i", "p", "a", "l", " ", "o", "r",
               "i", "g", "i", "n", "a", "l", " ", ".", ".", ".", ".", ".",
               ".", ".", ".", ".", ".", ".", ".", ".", ":", " ", "R", "$",
               " ">> \o br_money(principal),
           <<"P", "r", "i", "n", "c", "i", "p", "a", "l", " ", "a", "p",
               "o'", "s", " ", "A", "N", "T", "E", "S", " ", ".", ".", ".",
               ".", ".", ".", ".", ".", ".", ".", ".", ":", " ", "R", "$",
               " ">> \o br_money(principal_apos_antes),
           <<"P", "r", "i", "n", "c", "i", "p", "a", "l", " ", "p", "o'",
               "s", " ", "(", "I", "P", "C", "A", ")", " ", ".", ".", ".",
               ".", ".", ".", ".", ".", ".", ".", ".", ":", " ", "R", "$",
               " ">> \o br_money(principal_pos_ipca),
           <<"P", "r", "i", "n", "c", "i", "p", "a", "l", " ", "f", "i",
               "n", "a", "l", " ", "(", "I", "P", "C", "A", "+", "2", "%",
               ")", " ", ".", ".", ".", ".", ".", ".", ":", " ", "R", "$",
               " ">> \o br_money(principal_final),
           <<>>,
           <<"J", "u", "r", "o", "s", " ", "m", "o", "r", "a", " ", "a",
               "n", "t", "e", "r", "i", "o", "r", "e", "s", " ", "(", "b",
               "a", "s", "e", ")", " ", ".", ".", ".", ":", " ", "R", "$",
               " ">> \o br_money(jm_ant_base),
           <<"J", "u", "r", "o", "s", " ", "m", "o", "r", "a", " ", "a",
               "p", "o'", "s", " ", "A", "N", "T", "E", "S", " ", ".", ".",
               ".", ".", ".", ".", ".", ".", ".", ".", ":", " ", "R", "$",
               " ">> \o br_money(jm_ant_apos_antes),
           <<"J", "u", "r", "o", "s", " ", "m", "o", "r", "a", " ", "f",
               "i", "n", "a", "l", " ", "(", "c", "o", "r", "r", "i", "g",
               "i", "d", "o", ")", " ", ".", ".", ".", ":", " ", "R", "$",
               " ">> \o br_money(jm_ant_corrigido),
           Dashes,
           <<"T", "O", "T", "A", "L", " ", "C", "O", "R", "R", "I", "G",
               "I", "D", "O", " ", ".", ".", ".", ".", ".", ".", ".", ".",
               ".", ".", ".", ".", ".", ".", ".", ".", ":", " ", "R", "$",
               " ">> \o br_money(total_corrigido) >>

\* the standard output of calcular with debug=True, up to the KeyError of
\* Indices.product when a month is missing
stdout_calcular(principal, ano_venc, fator_mensal, pos_fim, juros_aa_pos, juros_mora_ant, antes_mode, override_antes, override_pos_ipca) ==
    LET p == calcular_periodos(ano_venc, antes_mode, pos_fim, fator_mensal)
        cabecalho ==
            << <<"A", "N", "T", "E", "S", " ", "(">> \o (IF antes_mode =
                "full" THEN <<"f", "u", "l", "l">> ELSE <<"f", "o", "r", "m",
                "a", "c", "a", "o">>)
                   \o <<")", ":", " ">> \o ym_text(p.inicio_antes) \o
                       <<" ", ".", ".", " ">>
                   \o ym_text(add_months(p.fim_antes_excl, -1)) \o <<" ",
                       " ", "(">>
                   \o str_int(Len(p.meses_antes)) \o <<" ", "m", "e", "s",
                       "e", "s", ",", " ", "I", "P", "C", "A", "-", "E",
                       ")">>,
               <<"P", "O'", "S", ":", " ">> \o ym_text(p.inicio_pos) \o
                   <<" ", ".", ".", " ">>
                   \o ym_text(add_months(p.fim_pos_excl, -1)) \o <<" ",
                       " ", "(">>
                   \o str_int(Len(p.meses_pos))
                   \o <<" ", "m", "e", "s", "e", "s", ",", " ", "I", "P",
                       "C", "A", "-", "E", " ", "+", " ", "2", "%", " ", "a",
                       ".", "a", ".", " ", "s", "i", "m", "p", "l", "e", "s",
                       ")">>,
               <<>> >>
        prod_antes ==
            IF ~IsNone(override_antes)
            THEN [raised |-> FALSE, value |-> d(Val(override_antes))]
            ELSE IF p.meses_antes # <<>> THEN product(fator_mensal, p.meses_antes)
            ELSE [raised |-> FALSE, value |-> One]
        out_antes ==
            IF ~IsNone(override_antes)
            THEN << <<"[", "o", "v", "e", "r", "r", "i", "d", "e", "]",
                " ", "F", "a", "t", "o", "r", " ", "I", "P", "C", "A", "-",
                "E", " ", "A", "N", "T", "E", "S", " ", "=", " ">> \o
                str_decimal(prod_antes.value) >>
            ELSE product_debug(fator_mensal, p.meses_antes, <<"[", "A",
                "N", "T", "E", "S", "]">>)
        prod_pos ==
            IF ~IsNone(override_pos_ipca)
            THEN [raised |-> FALSE, value |-> d(Val(override_pos_ipca))]
            ELSE IF p.meses_pos # <<>> THEN product(fator_mensal, p.meses_pos)
            ELSE [raised |-> FALSE, value |-> One]
        out_pos ==
            IF ~IsNone(override_pos_ipca)
            THEN << <<"[", "o", "v", "e", "r", "r", "i", "d", "e", "]",
                " ", "F", "a", "t", "o", "r", " ", "I", "P", "C", "A", "-",
                "E", " ", "P", "O'", "S", " ", "=", " ">> \o
                str_decimal(prod_pos.value) >>
            ELSE product_debug(fator_mensal, p.meses_pos, <<"[", " ", "P",
                "O'", "S", " ", "]">>)
    IN  cabecalho \o out_antes
        \o (IF prod_antes.raised THEN <<>>
            ELSE out_pos
                 \o (IF prod_pos.raised THEN <<>>
                     ELSE calculo_detalhado(principal, juros_aa_pos, juros_mora_ant,
                                            prod_antes.value, prod_pos.value,
                                            Len(p.meses_pos))))

----------------------------------------------------------------------------
(* main.py: the parser of the console output *)

IsSpace(c) == c = " "

\* str.strip()
strip(s) ==
    LET idx == {i \in DOMAIN s : ~IsSpace(s[i])}
    IN  IF idx = {} THEN <<>>
        ELSE SubSeq(s, MinOf(idx), CHOOSE i \in idx : \A j \in idx : j <= i)

Upper ==
    <<"A", "B", "C", "D", "E", "F", "G", "H", "I", "J", "K", "L", "M", "N",
      "O", "P", "Q", "R", "S", "T", "U", "V", "W", "X", "Y", "Z", "A'", "O'",
      "a'", "o'">>
Lower ==
    <<"a", "b", "c", "d", "e", "f", "g", "h", "i", "j", "k", "l", "m", "n",
      "o", "p", "q", "r", "s", "t", "u", "v", "w", "x", "y", "z", "a", "o",
      "a", "o">>

\* _strip_accents_lower: NFKD, the combining marks dropped, lower case
_strip_accents_lower(s) ==
    [i \in DOMAIN s |->
        IF \E k \in DOMAIN Upper : Upper[k] = s[i]
        THEN Lower[CHOOSE k \in DOMAIN Upper : Upper[k] = s[i]]
        ELSE s[i]]

\* re.sub(r"c+", " ", s) for one character c: the first character of a run
\* of c becomes a blank, the others go
sub_runs(s, c) ==
    LET kept == SelectSeq([i \in DOMAIN s |-> i],
                          LAMBDA i : ~(s[i] = c /\ i > 1 /\ s[i - 1] = c))
    IN  [k \in DOMAIN kept |-> IF s[kept[k]] = c THEN " " ELSE s[kept[k]]]

\* norm_clean: lower case without accents, runs of '.' and then runs of blanks
\* replaced by one blank
norm_clean(line) ==
    sub_runs(sub_runs(_strip_accents_lower(line), "."), " ")

\* s[i:].startswith(p)
HasAt(s, i, p) ==
    /\ i + Len(p) - 1 <= Len(s)
    /\ \A k \in DOMAIN p : s[i + k - 1] = p[k]

\* p in s
Contains(s, p) == \E i \in 1..(Len(s) - Len(p) + 1) : HasAt(s, i, p)

\* the end of the run [\d\.,]* that starts at i
token_end(s, i) ==
    LET stops == {j \in i..Len(s) : ~(IsDigit(s[j]) \/ s[j] \in {".", ","})}
    IN  IF stops = {} THEN Len(s) ELSE MinOf(stops) - 1

\* _num_token: re.search(r"(\d[\d\.,]*)", line)
_num_token(line) ==
    LET starts == {i \in DOMAIN line : IsDigit(line[i])}
    IN  IF starts = {} THEN None
        ELSE Some(SubSeq(line, MinOf(starts), token_end(line, MinOf(starts))))

\* the position after the \s* that starts at i
skip_spaces(s, i) ==
    LET others == {j \in i..Len(s) : ~IsSpace(s[j])}
    IN  IF others = {} THEN Len(s) + 1 ELSE MinOf(others)

\* re.search(r"R\$\s*(\d[\d\.,]*)", line)
money_token(line) ==
    LET starts == {i \in DOMAIN line :
                       /\ HasAt(line, i, <<"R", "$">>)
                       /\ skip_spaces(line, i + 2) <= Len(line)
                       /\ IsDigit(line[skip_spaces(line, i + 2)])}
    IN  IF starts = {} THEN None
        ELSE LET j == skip_spaces(line, MinOf(starts) + 2)
             IN  Some(SubSeq(line, j, token_end(line, j)))

\* re.search(r"meses\s*para\s*2%=\s*(\d+)", s): the digits matched
meses_para(s) ==
    LET at_para(i) == skip_spaces(s, i + 5)
        at_2(i) == skip_spaces(s, at_para(i) + 4)
        at_n(i) == skip_spaces(s, at_2(i) + 3)
        starts == {i \in DOMAIN s :
                       /\ HasAt(s, i, <<"m", "e", "s", "e", "s">>)
                       /\ HasAt(s, at_para(i), <<"p", "a", "r", "a">>)
                       /\ HasAt(s, at_2(i), <<"2", "%", "=">>)
                       /\ at_n(i) <= Len(s)
                       /\ IsDigit(s[at_n(i)])}
    IN  IF starts = {} THEN None
        ELSE LET j == at_n(MinOf(starts))
                 stops == {k \in j..Len(s) : ~IsDigit(s[k])}
             IN  Some(SubSeq(s, j, IF stops = {} THEN Len(s) ELSE MinOf(stops) - 1))

\* str.replace(a, b) for one character a; b is a character or nothing
replace_char(s, a, b) ==
    LET keep == SelectSeq(s, LAMBDA c : c # a \/ b # <<>>)
    IN  [i \in DOMAIN keep |-> IF keep[i] = a THEN b[1] ELSE keep[i]]

\* the nested helpers of parse_app4_output
_to_number_str_money(v) ==
    replace_char(replace_char(replace_char(strip(v), " ", <<>>), ".", <<>>), ",", <<".">>)

_to_number_str_factor(v) == replace_char(strip(v), ",", <<".">>)

RECURSIVE int_of(_)
int_of(digits) ==
    IF digits = <<>> THEN 0
    ELSE 10 * int_of(SubSeq(digits, 1, Len(digits) - 1)) + DigitValue(digits[Len(digits)])

\* float(s) for the texts a token can be: digits around at most one '.', else
\* ValueError.  The value is the decimal the text denotes.
float_of(s) ==
    LET dots == {i \in DOMAIN s : s[i] = "."}
    IN  IF \/ Cardinality(dots) > 1
           \/ \E i \in DOMAIN s : ~(IsDigit(s[i]) \/ s[i] = ".")
           \/ ~\E i \in DOMAIN s : IsDigit(s[i])
        THEN [raised |-> TRUE, error |-> "ValueError"]
        ELSE [raised |-> FALSE,
              value  |-> Dec(int_of(SelectSeq(s, IsDigit)),
                             IF dots = {} THEN 0 ELSE Len(s) - MinOf(dots))]

ResultFields ==
    {"fator_ipcae_antes", "fator_ipcae_pos", "fator_juros_2aa_simples",
      "meses_para_2aa", "principal_original", "principal_apos_antes",
      "principal_pos_ipca", "principal_final_ipca_2aa",
      "juros_mora_anteriores_base", "juros_mora_apos_antes",
      "juros_mora_final_corrigido", "total_corrigido"}

\* one round of the for loop of parse_app4_output
parse_line(result, raw) ==
    LET line == strip(raw)
        nc == norm_clean(line)
        fator(r, field) ==
            LET tok == _num_token(line)
                f == float_of(_to_number_str_factor(Val(tok)))
            IN  IF IsNone(tok) THEN [raised |-> FALSE, value |-> r]
                ELSE IF f.raised THEN f
                ELSE [raised |-> FALSE, value |-> [r EXCEPT ![field] = Some(f.value)]]
        dinheiro(r, field) ==
            LET m == money_token(line)
                f == float_of(_to_number_str_money(Val(m)))
            IN  IF IsNone(m) THEN [raised |-> FALSE, value |-> r]
                ELSE IF f.raised THEN f
                ELSE [raised |-> FALSE, value |-> [r EXCEPT ![field] = Some(f.value)]]
    IN  IF Contains(nc, <<"f", "a", "t", "o", "r", " ", "i", "p", "c",
        "a", "-", "e", " ", "a", "n", "t", "e", "s">>) THEN fator(result,
        "fator_ipcae_antes")
        ELSE IF Contains(nc, <<"f", "a", "t", "o", "r", " ", "i", "p",
            "c", "a", "-", "e", " ", "p", "o", "s">>) THEN fator(result,
            "fator_ipcae_pos")
        ELSE IF Contains(nc, <<"f", "a", "t", "o", "r", " ", "2", "%",
            " ", "a", ".", "a">>) \/ Contains(nc, <<"f", "a", "t", "o", "r",
            " ", "2", "%", " ", "a", " ", "a">>)
             THEN LET r1 == fator(result, "fator_juros_2aa_simples")
                      m2 == meses_para(nc)
                  IN  IF r1.raised \/ IsNone(m2) THEN r1
                      ELSE [raised |-> FALSE,
                            value  |-> [r1.value EXCEPT
                                           !["meses_para_2aa"] = Some(int_of(Val(m2)))]]
        ELSE IF HasAt(nc, 1, <<"p", "r", "i", "n", "c", "i", "p", "a",
            "l", " ", "o", "r", "i", "g", "i", "n", "a", "l">>)
             THEN dinheiro(result, "principal_original")
        ELSE IF Contains(nc, <<"p", "r", "i", "n", "c", "i", "p", "a",
            "l", " ", "a", "p", "o", "s", " ", "a", "n", "t", "e", "s">>)
             THEN dinheiro(result, "principal_apos_antes")
        ELSE IF Contains(nc, <<"p", "r", "i", "n", "c", "i", "p", "a",
            "l", " ", "p", "o", "s", " ", "(", "i", "p", "c", "a", ")">>) \/
            Contains(nc, <<"p", "r", "i", "n", "c", "i", "p", "a", "l", " ",
            "p", "o", "s", " ", "i", "p", "c", "a">>)
             THEN dinheiro(result, "principal_pos_ipca")
        ELSE IF Contains(nc, <<"p", "r", "i", "n", "c", "i", "p", "a",
            "l", " ", "f", "i", "n", "a", "l", " ", "(", "i", "p", "c", "a",
            "+", "2", "%", ")">>) \/ Contains(nc, <<"p", "r", "i", "n", "c",
            "i", "p", "a", "l", " ", "f", "i", "n", "a", "l", " ", "(", "i",
            "p", "c", "a", "+", "2", " ", "%", ")">>)
             THEN dinheiro(result, "principal_final_ipca_2aa")
        ELSE IF Contains(nc, <<"j", "u", "r", "o", "s", " ", "m", "o",
            "r", "a", " ", "a", "n", "t", "e", "r", "i", "o", "r", "e", "s">>)
             THEN dinheiro(result, "juros_mora_anteriores_base")
        ELSE IF Contains(nc, <<"j", "u", "r", "o", "s", " ", "m", "o",
            "r", "a", " ", "a", "p", "o", "s", " ", "a", "n", "t", "e", "s">>)
             THEN dinheiro(result, "juros_mora_apos_antes")
        ELSE IF HasAt(nc, 1, <<"j", "u", "r", "o", "s", " ", "m", "o",
            "r", "a", " ", "f", "i", "n", "a", "l">>)
             THEN dinheiro(result, "juros_mora_final_corrigido")
        ELSE IF Contains(nc, <<"t", "o", "t", "a", "l", " ", "c", "o",
            "r", "r", "i", "g", "i", "d", "o">>) \/ Contains(nc, <<"v", "a",
            "l", "o", "r", " ", "t", "o", "t", "a", "l", " ", "c", "o", "r",
            "r", "i", "g", "i", "d", "o">>)
             THEN dinheiro(result, "total_corrigido")
        ELSE [raised |-> FALSE, value |-> result]

\* the for loop of parse_app4_output (i and the result are bound to their
\* values before the next round)
RECURSIVE parse_loop(_, _, _)
parse_loop(lines, i, result) ==
    IF i > Len(lines) THEN [raised |-> FALSE, value |-> result]
    ELSE LET r == parse_line(result, lines[i])
         IN  IF r.raised THEN r
             ELSE CHOOSE out \in {parse_loop(lines, j, v) :
                                      j \in {i + 1}, v \in {r.value}} : TRUE

\* parse_app4_output: every field is None until a line gives it
parse_app4_output(output) ==
    parse_loop(output, 1, [k \in ResultFields |-> None])

\* call_app4_and_parse: app_4.py is run with --principal, --ano-venc,
\* --indices-csv, --juros-mora-ant, --debug and the overrides of the
\* environment, whatever its exit status its standard output is parsed
call_app4_and_parse(principal, ano_venc, juros_mora_ant, fator_mensal, override_antes, override_pos_ipca) ==
    parse_app4_output(
        stdout_calcular(principal, ano_venc, fator_mensal,
                        Some(last_available_month(fator_mensal)), Dec(2, 2),
                        juros_mora_ant, "formacao", override_antes,
                        override_pos_ipca))

----------------------------------------------------------------------------
(* main.py: the database.  db.resumo and db.process_calculo are what a     *)
(* reader of the two tables sees (the committed rows); db.tx holds the     *)
(* statements of the open transaction of the connection, which only that   *)
(* connection sees until it commits.                                       *)

Ids == 1..MaxRows

\* the record of esaj_detalhe_processos with the given id, as DEFAULT_SQL
\* reads it (data_base_atualizacao is set: ano_base is its year)
Detalhe(id) ==
    [id |-> id, cpf |-> id, numero_processo_cnj |-> id,
     principal  |-> IF id % 2 = 1 THEN Dec(1000, 0) ELSE Dec(105, 2),
     ano_base   |-> 2019 + (id % 3),
     juros_mora |-> Dec(333, 2)]

EmptyTx == [inserted |-> {}, updated |-> {}]

\* DEFAULT_SQL ... ORDER BY id [LIMIT n]: the records not processed yet
select_rows(dbs, limit) ==
    LET found == SelectSeq([i \in Ids |-> i], LAMBDA i : ~dbs.process_calculo[i])
        n == IF IsNone(limit) \/ Val(limit) > Len(found) THEN Len(found)
             ELSE Val(limit)
    IN  [k \in 1..n |-> Detalhe(found[k])]

\* _coalesce_payload: a field that is None becomes 0.0 (0 for meses_para_2aa)
_coalesce_payload(result) ==
    [k \in DOMAIN result |->
        IF ~IsNone(result[k]) THEN Val(result[k])
        ELSE IF k = "meses_para_2aa" THEN 0 ELSE Zero]

\* (mutant) the connection is in autocommit: the INSERT is visible at once
execute_insert_autocommit(dbs, data) == [dbs EXCEPT !.resumo = @ \cup {data}]

\* cur.execute(sql_insert, data) inside the transaction
execute_insert(dbs, data) == [dbs EXCEPT !.tx.inserted = @ \cup {data}]

\* cur.execute(sql_update, (id_registro,)) inside the transaction
execute_update(dbs, id_registro) == [dbs EXCEPT !.tx.updated = @ \cup {id_registro}]

\* with conn: ... left without an exception
commit(dbs) ==
    [resumo          |-> dbs.resumo \cup dbs.tx.inserted,
     process_calculo |-> [i \in Ids |-> dbs.process_calculo[i] \/ i \in dbs.tx.updated],
     tx              |-> EmptyTx]

\* with conn: ... left by an exception
rollback(dbs) == [dbs EXCEPT !.tx = EmptyTx]

\* the locals of fetch_and_process: where it is, the rows it fetched, the
\* index of the row of this round and the result parsed for it
BatchIdle == [pc |-> "idle", rows |-> <<>>, i |-> 0, result |-> <<>>]

----------------------------------------------------------------------------
(* gerar_indices_csv.py: a cell of the spreadsheet.  A cell is None (empty *)
(* or NaN) or the text str(x) of its value; "NBSP" stands for the          *)
(* no-break space, "LF" and "CR" for the line ends, "-'" for the minus     *)
(* sign U+2212 and "--" for the en dash.                                   *)

\* norm_str: line ends and no-break spaces become blanks, runs of blanks
\* one blank, and the ends are stripped
norm_str(x) ==
    LET blanks == [i \in DOMAIN x |->
                      IF x[i] \in {"LF", "CR", "NBSP"} THEN " " ELSE x[i]]
        kept == SelectSeq([i \in DOMAIN blanks |-> i],
                          LAMBDA i : ~(blanks[i] = " " /\ i > 1 /\ blanks[i - 1] = " "))
    IN  strip([k \in DOMAIN kept |-> blanks[kept[k]]])

\* Decimal(s) for the texts a cell can be: an optional sign, digits around
\* at most one '.'; anything else is InvalidOperation
decimal_of(s) ==
    LET signed == s # <<>> /\ s[1] \in {"-", "+"}
        body == IF signed THEN SubSeq(s, 2, Len(s)) ELSE s
        dots == {i \in DOMAIN body : body[i] = "."}
    IN  IF \/ Cardinality(dots) > 1
           \/ \E i \in DOMAIN body : ~(IsDigit(body[i]) \/ body[i] = ".")
           \/ ~\E i \in DOMAIN body : IsDigit(body[i])
        THEN [raised |-> TRUE, error |-> "InvalidOperation"]
        ELSE LET mag == int_of(SelectSeq(body, IsDigit))
             IN  [raised |-> FALSE,
                  value  |-> Dec(IF signed /\ s[1] = "-" THEN 0 - mag ELSE mag,
                                 IF dots = {} THEN 0 ELSE Len(body) - MinOf(dots))]

parse_percent_to_fraction(x) ==
    IF IsNone(x) THEN None
    ELSE LET s1 == norm_str(Val(x))
             s2 == replace_char(replace_char(replace_char(replace_char(
                       s1, "--", <<"-">>), "-'", <<"-">>), "%", <<>>), " ", <<>>)
             s3 == replace_char(replace_char(s2, ".", <<>>), ",", <<".">>)
             val == decimal_of(s3)
         IN  IF val.raised THEN None
             ELSE LET abs == IF val.value.m < 0
                             THEN Dec(0 - val.value.m, val.value.e) ELSE val.value
                  IN  IF DLt(Dec(2, 1), abs)
                      THEN Some(Dec(val.value.m, val.value.e + 2))
                      ELSE Some(val.value)

----------------------------------------------------------------------------
(* The requests the model makes *)

SeqsUpTo(S, n) == UNION {[1..k -> S] : k \in 0..n}

\* compose_factors: monthly rates, extra monthly rates, principals
KernelRates == {Dec(0, 0), Dec(5, 2), Dec(1, 1)}
Extras      == {Dec(0, 0), Dec(1, 2), Dec(2, 2)}
Principals  == {Dec(1000, 2), Dec(105, 2), Dec(1005, 3)}

\* calcular_ir: policies (one outside the Literal), bases, rates and brackets
Modos    == IncideIRLiteral \cup {"Outro"}
Bases    == {Dec(-1000, 2), Dec(0, 0), Dec(3333, 2), Dec(2000, 0), Dec(200001, 2),
             Dec(5000, 0)}
IrRates  == {None, Some(Dec(0, 0)), Some(Dec(-1, 1)), Some(Dec(125, 3))}
Faixas   == {FaixaIR(Dec(2000, 0), Dec(75, 3), Dec(0, 0)),
             FaixaIR(Dec(4000, 0), Dec(275, 3), Dec(750, 0)),
             FaixaIR(Dec(2000, 0), Dec(15, 2), Dec(100, 0)),
             FaixaIR(Dec(50, 0), Dec(125, 3), Dec(5, 0)),
             FaixaIR(Dec(4000, 0), Dec(-1, 1), Dec(-600, 0))}
Tabelas  == {None} \cup {Some(t) : t \in SeqsUpTo(Faixas, MaxBrackets)}

\* /calcular: monthly index variations, annual interest rates and tax settings
\* (brackets at the scale of the interest they tax)
Rates       == {Dec(0, 0), Dec(5, 2)}
AnnualRates == {Dec(0, 0), Dec(1268, 4)}
Series      == SeqsUpTo(Rates, MaxLen)
GracaSeries == {<<>>, <<Dec(5, 2)>>}
CalcPrincipals == {Dec(1000, 2), Dec(105, 2), Dec(-1000, 2)}
FaixaA == FaixaIR(Dec(10, 2), Dec(75, 3), Dec(0, 0))
FaixaB == FaixaIR(Dec(100, 2), Dec(15, 2), Dec(1, 2))
IrSettings ==
    {[incide_ir |-> modo, ir_rate |-> None, tabela_ir |-> None] : modo \in Modos}
    \cup {[incide_ir |-> modo, ir_rate |-> Some(Dec(125, 3)),
           tabela_ir |-> Some(<<FaixaB, FaixaA>>)] : modo \in IncideIRLiteral}
    \cup {[incide_ir |-> "Percentual informado", ir_rate |-> r, tabela_ir |-> None] :
              r \in {Some(Dec(0, 0)), Some(Dec(-1, 1))}}
    \cup {[incide_ir |-> "RRA", ir_rate |-> None, tabela_ir |-> Some(<<>>)]}

CalcInputs ==
    {[precatorio |-> "P-1", tipo |-> "Alimentar", ano_vencimento |-> 2008,
      principal |-> p, juros_mora |-> jm, indice_usado_sentenca |-> "IPCA-E",
      incide_ir |-> ir.incide_ir, ir_rate |-> ir.ir_rate, tabela_ir |-> ir.tabela_ir,
      fatores_indice |-> [antes_formacao |-> sa, graca |-> sg, pos_graca |-> sp],
      juros_aa_pos_grace |-> jp] :
        p \in CalcPrincipals, jm \in AnnualRates, jp \in AnnualRates,
        ir \in IrSettings, sa \in Series, sg \in GracaSeries, sp \in Series}

\* app_4: index tables from 07/2018 on.  Every month has factor 1 but 08/2019
\* (1.05), 12/2021 (1.5) and 01/2022 (1.1); a table may end early or lack a month
MonthsBetween(first, last) ==
    {k \in (2018..2024) \X (1..12) : ~DateLt(k, first) /\ ~DateLt(last, k)}

FatorDoMes(k) ==
    IF k = <<2019, 8>> THEN Dec(105, 2)
    ELSE IF k = <<2021, 12>> THEN Dec(15, 1)
    ELSE IF k = <<2022, 1>> THEN Dec(11, 1)
    ELSE One

UltimoMes == add_months(<<2021, 11>>, MaxPos)

Tabela1 == [k \in MonthsBetween(<<2018, 7>>, UltimoMes) |-> One]
Tabela2 == [k \in MonthsBetween(<<2018, 7>>, UltimoMes) |-> FatorDoMes(k)]
Tabela3 == [k \in MonthsBetween(<<2018, 7>>, UltimoMes) \ {<<2019, 9>>} |-> FatorDoMes(k)]
Tabela4 == [k \in MonthsBetween(<<2018, 7>>, <<2021, 12>>) |-> FatorDoMes(k)]
IndexTables == {Tabela1, Tabela2, Tabela3, Tabela4}

AnosVenc     == {2019, 2020, 2021, 2023}
PosFims      == {None} \cup {Some(add_months(<<2021, 11>>, i)) : i \in 0..MaxPos}
JurosAaPos   == {Dec(6, 2), Dec(12, 2)}
Principals4  == {Dec(100, 2), Dec(105, 2), Dec(333, 2)}
JurosMoraAnt == {Dec(0, 0), Dec(105, 2), Dec(333, 2)}
AntesModes   == {"formacao", "full"}
OverridesAntes == {None, Some(Dec(108, 2))}
OverridesPos   == {None, Some(Dec(125, 2))}

\* a series long enough for the context precision to matter: three monthly
\* rates followed by five others in every order, and two extra rates
SeriesPrefix == << Dec(83, 4), Dec(39, 4), Dec(102, 4) >>
SeriesSuffix == << Dec(116, 4), Dec(-38, 4), Dec(-32, 4), Dec(87, 4), Dec(-26, 4) >>
Orderings ==
    {SeriesPrefix \o [i \in 1..5 |-> SeriesSuffix[p[i]]] :
         p \in {q \in [1..5 -> 1..5] : \A i, j \in 1..5 : i # j => q[i] # q[j]}}
LongExtras == {Dec(0, 0), Dec(17, 4)}

\* the index table that holds the factors 1 + rate of a series from 01/2020 on
TableOf(series) ==
    [k \in {<<2020, i>> : i \in DOMAIN series} |-> DAdd(One, series[k[2]])]

\* main.py: the CSV of the run (complete to 03/2022 or to 06/2022, ended at
\* 12/2021, without 09/2019, without 01/2022), the columns of a record and the
\* overrides of the environment
TabelaMain      == [k \in MonthsBetween(<<2018, 7>>, <<2022, 3>>) |-> FatorDoMes(k)]
TabelaMainLonga == [k \in MonthsBetween(<<2018, 7>>, <<2022, 6>>) |-> FatorDoMes(k)]
TabelaMainCurta == [k \in MonthsBetween(<<2018, 7>>, <<2021, 12>>) |-> FatorDoMes(k)]
TabelaMainSemAntes == [k \in DOMAIN TabelaMain \ {<<2019, 9>>} |-> FatorDoMes(k)]
TabelaMainSemPos   == [k \in DOMAIN TabelaMain \ {<<2022, 1>>} |-> FatorDoMes(k)]
MainTables ==
    {TabelaMain, TabelaMainLonga, TabelaMainCurta, TabelaMainSemAntes,
     TabelaMainSemPos}
MainAnos       == {2019, 2020, 2021}
MainPrincipals == {Dec(1000, 0), Dec(105, 2)}
MainJurosMora  == {Dec(0, 0), Dec(333, 2)}

\* the CSV next to main.py with the overrides of the environment, and the
\* options --limit and --id
BatchEnvs ==
    {[indices |-> TabelaMain, override_antes |-> None, override_pos_ipca |-> None],
     [indices |-> TabelaMainSemAntes, override_antes |-> None,
      override_pos_ipca |-> None],
     [indices |-> TabelaMainSemPos, override_antes |-> Some(Dec(108, 2)),
      override_pos_ipca |-> None]}
BatchOptions ==
    {[limit |-> None, specific_id |-> None],
     [limit |-> Some(1), specific_id |-> None],
     [limit |-> None, specific_id |-> Some(1)]}

\* the two quantizers: every multiple of 0.001 from -MaxMilli to MaxMilli
\* thousandths (halves of a cent among them)
QuantizeInputs == {Dec(m, 3) : m \in (0 - MaxMilli)..MaxMilli}

\* main of app_4.py: --pos-fim absent, malformed, or a month from 11/2021 to
\* one month after the last month of the longest table
PosFimArgs ==
    {None, Some(<<2022>>)}
    \cup {Some(add_months(<<2021, 11>>, i)) : i \in 0..(MaxPos + 1)}

\* indices_provider: CSV files of IPCA-E rows 10/2021 .. 03/2022 (one complete,
\* one without 12/2021, one whose 01/2022 does not parse and whose 02/2022 comes
\* twice), or no file at all
Row(indice, ano, mes, v) ==
    [indice |-> indice, ano |-> ano, mes |-> mes, variacao_mensal |-> v]

CsvCompleto ==
    << Row("IPCA-E", 2021, 10, Some(Dec(12, 3))), Row("IPCA-E", 2021, 11, Some(Dec(117, 4))),
       Row("IPCA-E", 2021, 12, Some(Dec(78, 4))), Row("IPCA-E", 2022, 1, Some(Dec(58, 2))),
       Row("IPCA-E", 2022, 2, Some(Dec(99, 4))), Row("IPCA-E", 2022, 3, Some(Dec(-2, 2))),
       Row("TR", 2021, 12, Some(Dec(5, 4))) >>

CsvSemDezembro ==
    << Row("IPCA-E", 2021, 10, Some(Dec(12, 3))), Row("IPCA-E", 2021, 11, Some(Dec(117, 4))),
       Row("IPCA-E", 2022, 1, Some(Dec(58, 4))), Row("IPCA-E", 2022, 2, Some(Dec(99, 4))),
       Row("IPCA-E", 2022, 3, Some(Dec(95, 4))) >>

CsvIlegivel ==
    << Row("IPCA-E", 2021, 10, Some(Dec(12, 3))), Row("IPCA-E", 2021, 11, Some(Dec(117, 4))),
       Row("IPCA-E", 2021, 12, Some(Dec(78, 4))), Row("IPCA-E", 2022, 1, None),
       Row("IPCA-E", 2022, 2, Some(Dec(99, 4))), Row("IPCA-E", 2022, 2, Some(Dec(1, 2))),
       Row("IPCA-E", 2022, 3, Some(Dec(95, 4))) >>

CsvFiles == {None, Some(CsvCompleto), Some(CsvSemDezembro), Some(CsvIlegivel)}

\* the calls the threads make
\* the monthly variations of a spreadsheet, in percent: -0,30 .. 0,30 by
\* steps of 0,01, and 1,05, 2,5 and 25
Percents == {Dec(m, 2) : m \in ((0 - 30)..30) \cup {105, 250, 2500}}

\* str(x) of a float cell
str_float(p) ==
    IF p.e = 0 THEN format_fixed(p, 1) ELSE str_decimal(p)

\* the ways a spreadsheet gives the percentage p: text with a decimal comma,
\* the same followed by a percent sign, with the minus sign U+2212, text
\* with a decimal point and a percent sign, and a float cell
CellForms == {"0,21", "0,21 %", "-'0,22", "0.21%", "0.21"}
CellOf(p, form) ==
    LET pt == str_decimal(p)
        br == replace_char(pt, ".", <<",">>)
    IN  CASE form = "0,21"   -> br
          [] form = "0,21 %" -> br \o <<"NBSP", "%">>
          [] form = "-'0,22" -> replace_char(br, "-", <<"-'">>)
          [] form = "0.21%"  -> pt \o <<"%">>
          [] form = "0.21"   -> str_float(p)

\* the monthly fractions an indices CSV holds: -0.030 .. 0.030 by 0.001
Fractions == {Dec(m, 3) : m \in (0 - 30)..30}

\* the dates month_range is called with
RangeDates == {<<y, m, dd>> : y \in {2019, 2020, 2021}, m \in {1, 2, 7, 12},
                                 dd \in {1, 15}}

ThreadCalls ==
    {[indice |-> "IPCA-E", start |-> <<2021, 12, 1>>, end |-> <<2022, 3, 1>>],
     [indice |-> "IPCA-E", start |-> <<2022, 2, 1>>, end |-> <<2022, 3, 1>>]}
ProviderIndices == {"IPCA-E", "TR"}
StartDates == {<<2021, 10, 1>>, <<2021, 11, 15>>, <<2021, 12, 1>>, <<2022, 2, 1>>}
EndDates   == {<<2021, 11, 1>>, <<2021, 12, 1>>, <<2022, 1, 1>>, <<2022, 2, 10>>,
               <<2022, 4, 1>>}

----------------------------------------------------------------------------
(* State: the operation being served, its input and its answer.  Each     *)
(* request is computed from its own input alone; the service is idle      *)
(* between two requests.                                                   *)

Init ==
    /\ op = "idle" /\ arg = <<>> /\ ret = <<>>
    /\ db = [resumo |-> {}, process_calculo |-> [i \in Ids |-> FALSE], tx |-> EmptyTx]
    /\ batch = BatchIdle
    /\ provider = [csv |-> None, _cache |-> <<>>, _loaded |-> FALSE]
    /\ threads = [t \in Threads |-> ThreadIdle]

\* compose_factors(series, extra), and the factor applied to a principal as in
\* calcular: quantize_cents(principal * fator)
ComposeFactors ==
    \E series \in SeqsUpTo(KernelRates, MaxLen), extra \in Extras,
       principal \in Principals :
        /\ op = "idle"
        /\ op' = "compose_factors"
        /\ UNCHANGED <<db, batch, provider, threads>>
        /\ arg' = [series |-> series, extra |-> extra, principal |-> principal]
        /\ ret' = LET fator == compose_factors(series, extra)
                  IN  [fator |-> fator,
                       corrigido |-> quantize_cents(DMul(principal, fator))]

CalcularIr ==
    \E modo \in Modos, base \in Bases, ir_rate \in IrRates, tabela \in Tabelas :
        /\ op = "idle"
        /\ op' = "calcular_ir"
        /\ UNCHANGED <<db, batch, provider, threads>>
        /\ arg' = [modo |-> modo, base_juros |-> base, ir_rate |-> ir_rate,
                   tabela_ir |-> tabela]
        /\ ret' = [raised |-> FALSE,
                   value  |-> calcular_ir(modo, base, ir_rate, tabela)]

\* POST /calcular: the body is validated into CalcInput, then calcular runs
Calcular ==
    \E payload \in CalcInputs :
        /\ op = "idle"
        /\ op' = "calcular"
        /\ UNCHANGED <<db, batch, provider, threads>>
        /\ arg' = payload
        /\ ret' = IF valid_CalcInput(payload)
                  THEN [status |-> 200, body |-> calcular(payload)]
                  ELSE [status |-> 422, body |-> "validation error"]

\* app_4.calcular
CalcularApp4 ==
    \E principal \in Principals4, ano_venc \in AnosVenc, indices \in IndexTables,
       pos_fim \in PosFims, juros_aa_pos \in JurosAaPos,
       juros_mora_ant \in JurosMoraAnt, antes_mode \in AntesModes,
       override_antes \in OverridesAntes, override_pos_ipca \in OverridesPos :
        /\ op = "idle"
        /\ op' = "calcular_app4"
        /\ UNCHANGED <<db, batch, provider, threads>>
        /\ arg' = [principal |-> principal, ano_venc |-> ano_venc,
                   indices |-> indices, pos_fim |-> pos_fim,
                   juros_aa_pos |-> juros_aa_pos, juros_mora_ant |-> juros_mora_ant,
                   antes_mode |-> antes_mode, override_antes |-> override_antes,
                   override_pos_ipca |-> override_pos_ipca]
        /\ ret' = calcular_app4(principal, ano_venc, indices, pos_fim, juros_aa_pos,
                                juros_mora_ant, antes_mode, override_antes,
                                override_pos_ipca)

\* the periods of an app_4 calculation
CalcularPeriodos ==
    \E ano_venc \in AnosVenc, antes_mode \in AntesModes, pos_fim \in PosFims,
       indices \in IndexTables :
        /\ op = "idle"
        /\ op' = "calcular_periodos"
        /\ UNCHANGED <<db, batch, provider, threads>>
        /\ arg' = [ano_venc |-> ano_venc, antes_mode |-> antes_mode,
                   pos_fim |-> pos_fim, indices |-> indices]
        /\ ret' = calcular_periodos(ano_venc, antes_mode, pos_fim, indices)

\* python app_4.py --principal .. --ano-venc .. [--pos-fim ..] [--clip-pos]
MainApp4 ==
    \E ano_venc \in AnosVenc, indices \in IndexTables, pos_fim \in PosFimArgs,
       antes_mode \in AntesModes, clip_pos \in BOOLEAN :
        /\ op = "idle"
        /\ op' = "main_app4"
        /\ UNCHANGED <<db, batch, provider, threads>>
        /\ arg' = [principal |-> Dec(105, 2), ano_venc |-> ano_venc,
                   indices |-> indices, pos_fim |-> pos_fim,
                   juros_aa_pos |-> Dec(6, 2), juros_mora_ant |-> Dec(333, 2),
                   antes_mode |-> antes_mode, override_antes |-> None,
                   override_pos_ipca |-> None, clip_pos |-> clip_pos]
        /\ ret' = main_app4(Dec(105, 2), ano_venc, indices, pos_fim, Dec(6, 2),
                            Dec(333, 2), antes_mode, None, None, clip_pos)

\* compose_factors over a long series, and Indices.product over the table of
\* its factors
ComposeLongSeries ==
    \E series \in Orderings, extra \in LongExtras :
        /\ op = "idle"
        /\ op' = "compose_long"
        /\ UNCHANGED <<db, batch, provider, threads>>
        /\ arg' = [series |-> series, extra |-> extra]
        /\ ret' = [fator |-> compose_factors_ctx(series, extra),
                   product |-> product_ctx(TableOf(series),
                                           month_range(<<2020, 1>>,
                                                       <<2020, Len(series) + 1>>))]

\* one amount through the quantizer of each calculator
Quantize ==
    \E x \in QuantizeInputs :
        /\ op = "idle"
        /\ op' = "quantize"
        /\ UNCHANGED <<db, batch, provider, threads>>
        /\ arg' = [x |-> x]
        /\ ret' = [quantize_cents |-> quantize_cents(x), q2 |-> q2(x)]

\* IndicesProvider(csv_path).get_series(indice, start, end)
GetSeries ==
    \E csv \in CsvFiles, indice \in ProviderIndices, start \in StartDates,
       end \in EndDates :
        /\ op = "idle"
        /\ op' = "get_series"
        /\ UNCHANGED <<db, batch, provider, threads>>
        /\ arg' = [csv |-> csv, indice |-> indice, start |-> start, end |-> end]
        /\ ret' = get_series(csv, indice, start, end)

\* call_app4_and_parse of main.py
CallApp4AndParse ==
    \E principal \in MainPrincipals, ano_venc \in MainAnos,
       juros_mora_ant \in MainJurosMora, indices \in MainTables,
       override_antes \in OverridesAntes, override_pos_ipca \in OverridesPos :
        /\ op = "idle"
        /\ op' = "call_app4_and_parse"
        /\ UNCHANGED <<db, batch, provider, threads>>
        /\ arg' = [principal |-> principal, ano_venc |-> ano_venc,
                   juros_mora_ant |-> juros_mora_ant, indices |-> indices,
                   override_antes |-> override_antes,
                   override_pos_ipca |-> override_pos_ipca]
        /\ ret' = call_app4_and_parse(principal, ano_venc, juros_mora_ant, indices,
                                      override_antes, override_pos_ipca)

\* fetch_and_process: the connection is opened and the records that are not
\* processed yet are read.  With --id the query gets a second WHERE and the
\* server rejects it; that error, like a failure to connect, is printed and
\* ends the run.
FetchAndProcess ==
    \E env \in BatchEnvs, opt \in BatchOptions, falha \in BOOLEAN :
        /\ op = "idle"
        /\ op' = "fetch_and_process"
        /\ arg' = [indices |-> env.indices, override_antes |-> env.override_antes,
                   override_pos_ipca |-> env.override_pos_ipca,
                   limit |-> opt.limit, specific_id |-> opt.specific_id]
        /\ ret' = <<>>
        /\ LET rows == select_rows(db, opt.limit)
           IN  batch' = IF falha \/ ~IsNone(opt.specific_id) \/ rows = <<>>
                        THEN [BatchIdle EXCEPT !.pc = "done"]
                        ELSE [pc |-> "loop", rows |-> rows, i |-> 1, result |-> <<>>]
        /\ UNCHANGED <<db, provider, threads>>

\* one round of the for loop, up to the call of insert_calc_result: app_4.py
\* is run for the row and its output parsed; an exception of the parser ends
\* the run
ProcessRow ==
    /\ op = "fetch_and_process" /\ batch.pc = "loop" /\ batch.i <= Len(batch.rows)
    /\ LET row == batch.rows[batch.i]
           result == call_app4_and_parse(row.principal, row.ano_base, row.juros_mora,
                                         arg.indices, arg.override_antes,
                                         arg.override_pos_ipca)
       IN  batch' = IF result.raised THEN [batch EXCEPT !.pc = "done"]
                    ELSE [batch EXCEPT !.pc = "insert", !.result = result.value]
    /\ UNCHANGED <<op, arg, ret, db, provider, threads>>

\* insert_calc_result: cur.execute(sql_insert, data); an exception rolls the
\* transaction back, is printed, and the loop goes on
ExecuteInsert ==
    \E falha \in BOOLEAN :
        /\ op = "fetch_and_process" /\ batch.pc = "insert"
        /\ LET row == batch.rows[batch.i]
               data == [cpf |-> row.cpf, numero_processo_cnj |-> row.numero_processo_cnj,
                        valores |-> _coalesce_payload(batch.result)]
           IN  IF falha
               THEN /\ db' = rollback(db)
                    /\ batch' = [batch EXCEPT !.pc = "loop", !.i = @ + 1]
               ELSE /\ db' = execute_insert(db, data)
                    /\ batch' = [batch EXCEPT !.pc = "update"]
        /\ UNCHANGED <<op, arg, ret, provider, threads>>

\* insert_calc_result: cur.execute(sql_update, (id_registro,))
ExecuteUpdate ==
    \E falha \in BOOLEAN :
        /\ op = "fetch_and_process" /\ batch.pc = "update"
        /\ IF falha
           THEN /\ db' = rollback(db)
                /\ batch' = [batch EXCEPT !.pc = "loop", !.i = @ + 1]
           ELSE /\ db' = execute_update(db, batch.rows[batch.i].id)
                /\ batch' = [batch EXCEPT !.pc = "commit"]
        /\ UNCHANGED <<op, arg, ret, provider, threads>>

\* insert_calc_result: the end of `with conn:`, the commit (which may fail)
CommitRow ==
    \E falha \in BOOLEAN :
        /\ op = "fetch_and_process" /\ batch.pc = "commit"
        /\ db' = IF falha THEN rollback(db) ELSE commit(db)
        /\ batch' = [batch EXCEPT !.pc = "loop", !.i = @ + 1]
        /\ UNCHANGED <<op, arg, ret, provider, threads>>

\* the for loop is over: conn.close()
LoopEnd ==
    /\ op = "fetch_and_process" /\ batch.pc = "loop" /\ batch.i > Len(batch.rows)
    /\ batch' = [batch EXCEPT !.pc = "done"]
    /\ UNCHANGED <<op, arg, ret, db, provider, threads>>

\* IndicesProvider(csv_path): a provider that has loaded nothing yet
NewProvider ==
    \E csv \in CsvFiles :
        /\ \A t \in Threads : threads[t].pc = "idle"
        /\ provider' = [csv |-> csv, _cache |-> <<>>, _loaded |-> FALSE]
        /\ UNCHANGED <<op, arg, ret, db, batch, threads>>

\* a thread calls get_series on the shared provider and enters _load: it
\* returns at once when _loaded is set, raises when the file does not exist
CallGetSeries(t) ==
    \E c \in ThreadCalls :
        /\ threads[t].pc = "idle"
        /\ threads' = [threads EXCEPT ![t] =
               [pc |-> IF provider._loaded THEN "read"
                       ELSE IF IsNone(provider.csv) THEN "raised" ELSE "load",
                indice |-> c.indice, start |-> c.start, end |-> c.end, i |-> 1,
                cur |-> <<c.start[1], c.start[2], 1>>, series |-> <<>>,
                error |-> IF ~provider._loaded /\ IsNone(provider.csv)
                          THEN "FileNotFoundError" ELSE ""]]
        /\ UNCHANGED <<op, arg, ret, db, batch, provider>>

\* _load: one row of the CSV is read and stored in the shared cache
LoadRow(t) ==
    /\ threads[t].pc = "load" /\ threads[t].i <= Len(Val(provider.csv))
    /\ provider' = [provider EXCEPT
                       !._cache = load_row(@, Val(provider.csv)[threads[t].i])]
    /\ threads' = [threads EXCEPT ![t].i = @ + 1]
    /\ UNCHANGED <<op, arg, ret, db, batch>>

\* _load: the file is exhausted, self._loaded = True
LoadEnd(t) ==
    /\ threads[t].pc = "load" /\ threads[t].i > Len(Val(provider.csv))
    /\ provider' = [provider EXCEPT !._loaded = TRUE]
    /\ threads' = [threads EXCEPT ![t].pc = "read"]
    /\ UNCHANGED <<op, arg, ret, db, batch>>

\* get_series: one round of the while loop
ReadMonth(t) ==
    /\ threads[t].pc = "read"
    /\ threads' = [threads EXCEPT ![t] = read_month(provider._cache, @)]
    /\ UNCHANGED <<op, arg, ret, db, batch, provider>>

\* the caller has the series, or the exception
ThreadReturn(t) ==
    /\ threads[t].pc \in {"returned", "raised"}
    /\ threads' = [threads EXCEPT ![t] = ThreadIdle]
    /\ UNCHANGED <<op, arg, ret, db, batch, provider>>

\* the answer is handed to the caller (fetch_and_process has to be over)
\* month_range(start, end_exclusive)
MonthRange ==
    \E start \in RangeDates, end_exclusive \in RangeDates :
        /\ op = "idle"
        /\ op' = "month_range"
        /\ UNCHANGED <<db, batch, provider, threads>>
        /\ arg' = [start |-> start, end_exclusive |-> end_exclusive]
        /\ ret' = month_range_date(start, end_exclusive)

\* parse_percent_to_fraction(x) on the cell of the percentage p
ParsePercentToFraction ==
    \E p \in Percents, form \in CellForms :
        /\ op = "idle"
        /\ op' = "parse_percent_to_fraction"
        /\ UNCHANGED <<db, batch, provider, threads>>
        /\ arg' = [p |-> p, form |-> form, x |-> Some(CellOf(p, form))]
        /\ ret' = parse_percent_to_fraction(Some(CellOf(p, form)))

\* IndicesProvider(csv).get_series of the one month of a CSV that holds the
\* fraction v for it
ServeFraction ==
    \E v \in Fractions :
        /\ op = "idle"
        /\ op' = "serve_fraction"
        /\ UNCHANGED <<db, batch, provider, threads>>
        /\ arg' = [variacao_mensal |-> v]
        /\ ret' = get_series(Some(<<Row("IPCA-E", 2022, 1, Some(v))>>), "IPCA-E",
                             <<2022, 1, 1>>, <<2022, 2, 1>>)

Return ==
    /\ op # "idle"
    /\ op = "fetch_and_process" => batch.pc = "done"
    /\ op' = "idle" /\ arg' = <<>> /\ ret' = <<>>
    /\ batch' = BatchIdle
    /\ UNCHANGED <<db, provider, threads>>

Next ==
    \/ ComposeFactors \/ CalcularIr \/ Calcular \/ CalcularApp4
    \/ CalcularPeriodos \/ GetSeries \/ MainApp4 \/ Quantize
    \/ ComposeLongSeries \/ CallApp4AndParse \/ MonthRange
    \/ ParsePercentToFraction \/ ServeFraction
    \/ FetchAndProcess \/ ProcessRow \/ ExecuteInsert \/ ExecuteUpdate
    \/ CommitRow \/ LoopEnd
    \/ NewProvider
    \/ \E t \in Threads : CallGetSeries(t)
    \/ \E t \in Threads : LoadRow(t)
    \/ \E t \in Threads : LoadEnd(t)
    \/ \E t \in Threads : ReadMonth(t)
    \/ \E t \in Threads : ThreadReturn(t)
    \/ Return

Spec == Init /\ [][Next]_vars

\* one specification per component
NextKernel == ComposeFactors \/ Return
SpecKernel == Init /\ [][NextKernel]_vars

NextIr == CalcularIr \/ Return
SpecIr == Init /\ [][NextIr]_vars

NextCalcular == Calcular \/ Return
SpecCalcular == Init /\ [][NextCalcular]_vars

NextApp4 == CalcularApp4 \/ Return
SpecApp4 == Init /\ [][NextApp4]_vars

\* the two index sources: Indices of app_4.py and IndicesProvider
NextIndices == CalcularApp4 \/ GetSeries \/ Return
SpecIndices == Init /\ [][NextIndices]_vars

NextMain == MainApp4 \/ Return
SpecMain == Init /\ [][NextMain]_vars

NextLong == ComposeLongSeries \/ Return
SpecLong == Init /\ [][NextLong]_vars

NextBatch ==
    \/ FetchAndProcess \/ ProcessRow \/ ExecuteInsert \/ ExecuteUpdate
    \/ CommitRow \/ LoopEnd \/ Return
SpecBatch == Init /\ [][NextBatch]_vars

NextProvider ==
    \/ NewProvider
    \/ \E t \in Threads : CallGetSeries(t)
    \/ \E t \in Threads : LoadRow(t)
    \/ \E t \in Threads : LoadEnd(t)
    \/ \E t \in Threads : ReadMonth(t)
    \/ \E t \in Threads : ThreadReturn(t)
SpecProvider == Init /\ [][NextProvider]_vars

NextParse == CallApp4AndParse \/ Return
SpecParse == Init /\ [][NextParse]_vars

NextRange == MonthRange \/ Return
SpecRange == Init /\ [][NextRange]_vars

NextPercent == ParsePercentToFraction \/ ServeFraction \/ Return
SpecPercent == Init /\ [][NextPercent]_vars

NextQuantize == Quantize \/ Return
SpecQuantize == Init /\ [][NextQuantize]_vars

NextPeriodos == CalcularPeriodos \/ Return
SpecPeriodos == Init /\ [][NextPeriodos]_vars

----------------------------------------------------------------------------
(* Tax Resolver: calcular_ir *)

\* bracket i of table t comes before bracket j once t is sorted by ceiling
\* (brackets of equal ceiling stay in the order they were sent)
ComesBefore(t, i, j) ==
    DLt(t[i].ate, t[j].ate) \/ (t[i].ate = t[j].ate /\ i < j)

\* the bracket of t that applies to base: the first, in ceiling order, whose
\* ceiling is >= base; the one of highest ceiling when base exceeds them all
BracketFor(t, base) ==
    LET ok == {i \in 1..Len(t) : DLe(base, t[i].ate)}
    IN  IF ok # {}
        THEN t[CHOOSE i \in ok : \A j \in ok \ {i} : ComesBefore(t, i, j)]
        ELSE t[CHOOSE i \in 1..Len(t) :
                   \A j \in (1..Len(t)) \ {i} : ComesBefore(t, j, i)]

BracketTax(t, base) ==
    LET f   == BracketFor(t, base)
        raw == DSub(DMul(base, f.aliquota), f.parcela_deduzir)
    IN  quantize_cents(IF DLt(raw, Zero) THEN Zero ELSE raw)

C2_FlatRate ==
    (op = "calcular_ir" /\ arg.modo = "Percentual informado")
    => /\ ~ret.raised
       /\ IF ~IsNone(arg.ir_rate) /\ DLt(Zero, Val(arg.ir_rate))
          THEN /\ ret.value.ir = quantize_cents(DMul(arg.base_juros, Val(arg.ir_rate)))
               /\ ret.value.notice = None
          ELSE /\ ret.value.ir = Zero
               /\ ret.value.notice # None
               /\ Val(ret.value.notice) # ""

\* a negative rate: no tax, a notice
C2_Witness ==
    /\ op = "calcular_ir"
    /\ arg.modo = "Percentual informado"
    /\ arg.ir_rate = Some(Dec(-1, 1))
    /\ arg.base_juros = Dec(5000, 0)
    /\ ret.value.ir = Zero
    /\ ret.value.notice = Some(NoticeSemRate)

\* the tax configuration of a CalcInput has a gap
ConfigGap(p) ==
    \/ /\ p.incide_ir = "Percentual informado"
       /\ (IsNone(p.ir_rate) \/ DLe(Val(p.ir_rate), Zero))
    \/ /\ p.incide_ir \in {"RRA", "Tabela progressiva"}
       /\ (IsNone(p.tabela_ir) \/ Val(p.tabela_ir) = <<>>)
    \/ p.incide_ir \notin IncideIRLiteral

CalcOutputFields ==
    {"precatorio", "tipo", "ano_vencimento", "indice_usado_sentenca", "incide_ir",
     "principal_atualizado", "juros_mora_antes", "juros_mora_posteriores",
     "valor_bruto_precatorio", "ir_calculado", "base_calculo_liquida",
     "valor_liquido_cedivel", "ir_notice"}

C4_FailsOnUnknownPolicy ==
    (op = "calcular_ir" /\ arg.modo \notin IncideIRLiteral) => ret.raised

\* C4 (amended): for a policy tag outside the Literal, calcular_ir does not
\* fail: it returns tax 0 together with the notice 'Modo de IR desconhecido.',
\* never a zero tax without that notice.
C4_UnknownPolicyNotice ==
    (op = "calcular_ir" /\ arg.modo \notin IncideIRLiteral)
    => /\ ~ret.raised
       /\ ret.value.ir = Zero
       /\ ret.value.notice = Some(NoticeDesconhecido)

C4_Witness ==
    /\ op = "calcular_ir"
    /\ arg.modo = "Outro"
    /\ arg.base_juros = Dec(5000, 0)
    /\ ret.value.ir = Zero
    /\ ret.value.notice # None

----------------------------------------------------------------------------
(* Decimal Arithmetic Kernel: compose_factors *)

\* the product of the integers 100 + 100 * (rate_i + extra), one per month
RECURSIVE ProductOfCents(_, _)
ProductOfCents(series, extra) ==
    IF series = <<>> THEN 1
    ELSE (100 + Scaled(Head(series), 2) + Scaled(extra, 2))
         * ProductOfCents(Tail(series), extra)

----------------------------------------------------------------------------
(* Correction Engine *)

\* C6 (as claimed): the principal is quantized once per period; in
\* app_4.calcular the post period yields principal_final = q2(principal_apos_antes
\* * fator_ipca_pos * fator_juros_simples_pos), no cent rounding between the index
\* product and the simple-interest multiplier.
C6_OneRoundingPerPeriod ==
    (op = "calcular_app4" /\ ~ret.raised)
    => LET v == ret.value
           principal_apos_antes == q2(DMul(arg.principal, v.fator_antes))
       IN  v.principal_final =
               q2(DMul(DMul(principal_apos_antes, v.fator_ipca_pos),
                       v.fator_juros_simples_pos))

\* the part of C6 about app.py: each of the three periods of /calcular yields
\* quantize_cents(principal_before * period_factor)
C6_AppPyPeriods ==
    (op = "calcular" /\ ret.status = 200)
    => LET f == arg.fatores_indice
           p1 == quantize_cents(DMul(arg.principal,
                     compose_factors(f.antes_formacao,
                                     annual_to_monthly_rate(arg.juros_mora))))
           p2 == quantize_cents(DMul(p1, compose_factors(f.graca, Zero)))
           p3 == quantize_cents(DMul(p2,
                     compose_factors(f.pos_graca,
                                     annual_to_monthly_rate(arg.juros_aa_pos_grace))))
       IN  ret.body.principal_atualizado = p3

\* C7 (as claimed): the prior accrued interest goes through the same multipliers
\* and rounding steps as the principal: when juros_mora_ant equals principal,
\* jm_ant_corrigido equals principal_final.
C7_JmCorrectedAsPrincipal ==
    (op = "calcular_app4" /\ ~ret.raised /\ arg.juros_mora_ant = arg.principal)
    => ret.value.jm_ant_corrigido = ret.value.principal_final

\* C8 (as claimed): juros_mora_antes is the interest-only delta of the
\* pre-formation period: quantize_cents(principal * factor with the monthly
\* interest rate) - quantize_cents(principal * factor of the index alone).
C8_InterestBeforeIsolated ==
    (op = "calcular" /\ ret.status = 200)
    => LET serie == arg.fatores_indice.antes_formacao
           r == annual_to_monthly_rate(arg.juros_mora)
       IN  ret.body.juros_mora_antes =
               DSub(quantize_cents(DMul(arg.principal, compose_factors(serie, r))),
                    quantize_cents(DMul(arg.principal, compose_factors(serie, Zero))))

\* the quantized principal after the grace period of a /calcular request
PrincipalAfterGrace(p) ==
    quantize_cents(DMul(
        quantize_cents(DMul(p.principal,
            compose_factors(p.fatores_indice.antes_formacao,
                            annual_to_monthly_rate(p.juros_mora)))),
        compose_factors(p.fatores_indice.graca, Zero)))

\* C9: juros_mora_posteriores = quantize_cents(P_grace * compose_factors(pos_graca,
\* monthly rate)) - quantize_cents(P_grace * compose_factors(pos_graca, 0)), with
\* P_grace the quantized principal after the grace period; 0 when pos_graca is
\* empty.
C9_InterestAfterIsolated ==
    (op = "calcular" /\ ret.status = 200)
    => LET serie == arg.fatores_indice.pos_graca
           r  == annual_to_monthly_rate(arg.juros_aa_pos_grace)
           pg == PrincipalAfterGrace(arg)
       IN  /\ ret.body.juros_mora_posteriores =
                  DSub(quantize_cents(DMul(pg, compose_factors(serie, r))),
                       quantize_cents(DMul(pg, compose_factors(serie, Zero))))
           /\ serie = <<>> => ret.body.juros_mora_posteriores = Zero

\* 10.00 over two months of 5%: 11.24 with the interest, 11.02 without
C9_Witness ==
    /\ op = "calcular"
    /\ ret.status = 200
    /\ arg.principal = Dec(1000, 2)
    /\ arg.fatores_indice = [antes_formacao |-> <<>>, graca |-> <<>>,
                             pos_graca |-> <<Dec(5, 2), Dec(5, 2)>>]
    /\ arg.juros_aa_pos_grace = Dec(1268, 4)
    /\ ret.body.juros_mora_posteriores = Dec(22, 2)

\* the number of months from 12/2021 to the end of the post period
MonthsOfPos(a) ==
    LET fim == IF IsNone(a.pos_fim) THEN last_available_month(a.indices)
               ELSE Val(a.pos_fim)
    IN  MaxOf(12 * (fim[1] - 2021) + fim[2] - 11, 0)

\* C10: the simple-interest multiplier of the post period is 1 + juros_aa_pos *
\* (n - 1) / 12 for the n months of the period, exactly 1 for n = 0 and n = 1, and
\* it multiplies the index-corrected principal and prior interest once.
C10_SimpleInterestFactor ==
    (op = "calcular_app4" /\ ~ret.raised)
    => LET v == ret.value
           n == v.meses_pos
           f == v.fator_juros_simples_pos
       IN  /\ n = MonthsOfPos(arg)
           /\ n >= 1 => DMul(DSub(f, One), Dec(12, 0))
                            = DMul(arg.juros_aa_pos, Dec(n - 1, 0))
           /\ n \in {0, 1} => f = One
           /\ v.principal_final =
                  q2(DMul(q2(DMul(q2(DMul(arg.principal, v.fator_antes)),
                                  v.fator_ipca_pos)), f))
           /\ v.jm_ant_corrigido =
                  q2(DMul(DMul(q2(DMul(arg.juros_mora_ant, v.fator_antes)),
                               v.fator_ipca_pos), f))

\* three months (12/2021 .. 02/2022) at 6% a.a.: 1 + 0.06 * 2 / 12 = 1.01
C10_Witness ==
    /\ op = "calcular_app4"
    /\ ~ret.raised
    /\ arg.pos_fim = Some(<<2022, 2>>)
    /\ arg.juros_aa_pos = Dec(6, 2)
    /\ ret.value.meses_pos = 3
    /\ ret.value.fator_juros_simples_pos = Dec(101, 2)

----------------------------------------------------------------------------
(* Period Builder *)

\* C11: the pre-formation period is [July(Y-1), January(Y+1)) in mode
\* 'formacao' (18 months, December(Y) the last) and [July(Y-1), December 2021)
\* in mode 'full'; it is a function of Y and the mode alone, whatever the index
\* table, the end of the post period and the calculations made before.
C11_PreFormationPeriod ==
    op = "calcular_periodos"
    => LET y == arg.ano_venc
       IN  /\ ret.inicio_antes = <<y - 1, 7>>
           /\ arg.antes_mode = "full" => ret.fim_antes_excl = <<2021, 12>>
           /\ arg.antes_mode = "formacao"
                  => /\ ret.fim_antes_excl = <<y + 1, 1>>
                     /\ Len(ret.meses_antes) = 18
                     /\ ret.meses_antes[1] = <<y - 1, 7>>
                     /\ ret.meses_antes[18] = <<y, 12>>

C11_Witness ==
    /\ op = "calcular_periodos"
    /\ arg.ano_venc = 2020
    /\ arg.antes_mode = "formacao"
    /\ arg.indices = Tabela4
    /\ Len(ret.meses_antes) = 18
    /\ ret.meses_antes[18] = <<2020, 12>>

\* C12 (as claimed): every ANTES month precedes every POS month, so that no
\* (year, month) belongs to both periods.
C12_PeriodsDisjoint ==
    op = "calcular_periodos"
    => \A i \in DOMAIN ret.meses_antes, j \in DOMAIN ret.meses_pos :
           DateLt(ret.meses_antes[i], ret.meses_pos[j])

----------------------------------------------------------------------------
(* Index Series Source *)

\* the first month of a list that a set of months does not hold
FirstAbsent(meses, held) ==
    meses[CHOOSE i \in DOMAIN meses :
              /\ meses[i] \notin held
              /\ \A j \in 1..(i - 1) : meses[j] \in held]

HasAbsent(meses, held) == \E i \in DOMAIN meses : meses[i] \notin held

\* the months get_series is asked for: the month of start and the following
\* ones whose first day is before end
RequestedMonths(start, end) ==
    LET all == {k \in (2021..2022) \X (1..12) :
                    /\ ~DateLt(k, <<start[1], start[2]>>)
                    /\ DateLt3(<<k[1], k[2], 1>>, end)}
    IN  month_range(<<start[1], start[2]>>,
                    IF all = {} THEN <<start[1], start[2]>>
                    ELSE add_months(CHOOSE k \in all : \A j \in all : ~DateLt(k, j), 1))

\* C13: a month of a period that is missing from the index table, with no
\* override for that period, fails the whole calculation with a KeyError that
\* names the first absent month: app_4.calcular returns no Resultado, and
\* get_series returns no series.
C13_MissingMonthFails ==
    /\ op = "calcular_app4"
       => LET p == calcular_periodos(arg.ano_venc, arg.antes_mode, arg.pos_fim,
                                     arg.indices)
              held == DOMAIN arg.indices
              falta_antes == IsNone(arg.override_antes) /\ HasAbsent(p.meses_antes, held)
              falta_pos == IsNone(arg.override_pos_ipca) /\ HasAbsent(p.meses_pos, held)
          IN  /\ falta_antes
                  => ret = [raised |-> TRUE, error |-> "KeyError",
                            key |-> FirstAbsent(p.meses_antes, held)]
              /\ (~falta_antes /\ falta_pos)
                  => ret = [raised |-> TRUE, error |-> "KeyError",
                            key |-> FirstAbsent(p.meses_pos, held)]
              /\ ret.raised <=> (falta_antes \/ falta_pos)
    /\ (op = "get_series" /\ ~IsNone(arg.csv))
       => LET rows == Val(arg.csv)
              held == {<<rows[i].ano, rows[i].mes>> : i \in
                          {j \in DOMAIN rows : /\ rows[j].indice = arg.indice
                                               /\ ~IsNone(rows[j].variacao_mensal)}}
              meses == RequestedMonths(arg.start, arg.end)
          IN  /\ HasAbsent(meses, held)
                  => ret = [raised |-> TRUE, error |-> "KeyError",
                            key |-> <<arg.indice>> \o FirstAbsent(meses, held)]
              /\ ret.raised <=> HasAbsent(meses, held)

\* 09/2019 is not in the table and lies in the ANTES period of 2019
C13_Witness ==
    /\ op = "calcular_app4"
    /\ arg.indices = Tabela3
    /\ arg.ano_venc = 2019
    /\ arg.override_antes = None
    /\ ret = [raised |-> TRUE, error |-> "KeyError", key |-> <<2019, 9>>]

\* 12/2021 is not in the file and is asked for
C13_WitnessProvider ==
    /\ op = "get_series"
    /\ arg.csv = Some(CsvSemDezembro)
    /\ arg.start = <<2021, 10, 1>>
    /\ arg.end = <<2022, 2, 10>>
    /\ ret = [raised |-> TRUE, error |-> "KeyError", key |-> <<"IPCA-E", 2021, 12>>]

\* the months from 12/2021 to fim, both included
PosMonths(fim) == month_range(<<2021, 12>>, add_months(fim, 1))

C14_WitnessSemClip ==
    /\ op = "main_app4"
    /\ arg.indices = Tabela4
    /\ arg.pos_fim = Some(<<2022, 1>>)
    /\ ~arg.clip_pos
    /\ ret = [raised |-> TRUE, error |-> "KeyError", key |-> <<2022, 1>>,
              ultimo |-> <<2021, 12>>]

----------------------------------------------------------------------------
(* Overrides *)

\* C15: a supplied override is the index factor of its period and the months of
\* that period are not looked up: a failure can only name a month of the
\* period that has no override, and with both overrides the calculation never
\* fails.
C15_OverridePrecedence ==
    op = "calcular_app4"
    => LET p == calcular_periodos(arg.ano_venc, arg.antes_mode, arg.pos_fim,
                                  arg.indices)
           held == DOMAIN arg.indices
       IN  /\ ~IsNone(arg.override_antes)
               => /\ ~ret.raised => ret.value.fator_antes = Val(arg.override_antes)
                  /\ ret.raised => /\ IsNone(arg.override_pos_ipca)
                                   /\ HasAbsent(p.meses_pos, held)
                                   /\ ret.key = FirstAbsent(p.meses_pos, held)
           /\ ~IsNone(arg.override_pos_ipca)
               => /\ ~ret.raised => ret.value.fator_ipca_pos = Val(arg.override_pos_ipca)
                  /\ ret.raised => /\ IsNone(arg.override_antes)
                                   /\ HasAbsent(p.meses_antes, held)
                                   /\ ret.key = FirstAbsent(p.meses_antes, held)
           /\ (~IsNone(arg.override_antes) /\ ~IsNone(arg.override_pos_ipca))
               => ~ret.raised

\* 09/2019 is missing from the ANTES period, whose factor is overridden
C15_Witness ==
    /\ op = "calcular_app4"
    /\ arg.indices = Tabela3
    /\ arg.ano_venc = 2019
    /\ arg.antes_mode = "full"
    /\ arg.override_antes = Some(Dec(108, 2))
    /\ arg.override_pos_ipca = None
    /\ HasAbsent(month_range(<<2018, 7>>, <<2021, 12>>), DOMAIN arg.indices)
    /\ ~ret.raised
    /\ ret.value.fator_antes = Dec(108, 2)

\* the call of a calcular_app4 state with other overrides
WithOverrides(a, override_antes, override_pos_ipca) ==
    calcular_app4(a.principal, a.ano_venc, a.indices, a.pos_fim, a.juros_aa_pos,
                  a.juros_mora_ant, a.antes_mode, override_antes, override_pos_ipca)

\* C16: a call that computed a period's factor from the monthly data and the
\* call with that factor supplied as the period's override return the same
\* principal_final, jm_ant_corrigido and total_corrigido.
C16_RoundTripOverride ==
    (op = "calcular_app4" /\ ~ret.raised)
    => LET v == ret.value
           Same(r) == /\ ~r.raised
                      /\ r.value.principal_final = v.principal_final
                      /\ r.value.jm_ant_corrigido = v.jm_ant_corrigido
                      /\ r.value.total_corrigido = v.total_corrigido
       IN  /\ IsNone(arg.override_antes)
               => Same(WithOverrides(arg, Some(v.fator_antes), arg.override_pos_ipca))
           /\ IsNone(arg.override_pos_ipca)
               => Same(WithOverrides(arg, arg.override_antes, Some(v.fator_ipca_pos)))
           /\ (IsNone(arg.override_antes) /\ IsNone(arg.override_pos_ipca))
               => Same(WithOverrides(arg, Some(v.fator_antes), Some(v.fator_ipca_pos)))

\* both factors come from the monthly data (1.05 and 1.65) and are fed back
C16_Witness ==
    /\ op = "calcular_app4"
    /\ ~ret.raised
    /\ arg.override_antes = None
    /\ arg.override_pos_ipca = None
    /\ arg.principal = Dec(333, 2)
    /\ ret.value.fator_antes = Dec(105, 2)
    /\ ret.value.fator_ipca_pos = Dec(165, 2)
    /\ WithOverrides(arg, Some(Dec(105, 2)), Some(Dec(165, 2))).value.total_corrigido
           = ret.value.total_corrigido

----------------------------------------------------------------------------
(* Validation *)

\* two brackets of a table have the same ceiling
DuplicateCeilings(t) ==
    \E i, j \in DOMAIN t : i # j /\ t[i].ate = t[j].ate

\* C17 (as claimed): a bracket table with two brackets of the same ceiling is
\* rejected before any tax arithmetic: calcular_ir computes no tax from it.
C17_DuplicateCeilingsRejected ==
    (/\ op = "calcular_ir"
     /\ arg.modo \in {"RRA", "Tabela progressiva"}
     /\ ~IsNone(arg.tabela_ir)
     /\ DuplicateCeilings(Val(arg.tabela_ir)))
    => ret.raised

\* a period whose start is not before its end
Inverted(inicio, fim_excl) == ~DateLt(inicio, fim_excl)

\* C18 (as claimed): an inverted date range (the ANTES period of mode 'full'
\* starting after 11/2021, or pos_fim before 12/2021) is rejected before any
\* arithmetic: app_4.calcular returns no Resultado for it.
C18_InvertedRangeRejected ==
    op = "calcular_app4"
    => LET p == calcular_periodos(arg.ano_venc, arg.antes_mode, arg.pos_fim,
                                  arg.indices)
       IN  (\/ Inverted(p.inicio_antes, p.fim_antes_excl)
            \/ Inverted(p.inicio_pos, p.fim_pos_excl))
           => ret.raised

----------------------------------------------------------------------------
(* Numeric Kernel: rounding *)

\* C19 (as claimed): quantize_cents of app.py and q2 of app_4.py agree on every
\* decimal input, the values halfway between two cents included.
C19_QuantizersAgree ==
    op = "quantize" => ret.quantize_cents = ret.q2

----------------------------------------------------------------------------
(* Net total *)

\* C20 (as claimed): base_calculo_liquida is the taxable base handed to
\* calcular_ir (juros_mora_posteriores) minus the computed tax, quantized.
C20_NetOfTaxableBase ==
    (op = "calcular" /\ ret.status = 200)
    => ret.body.base_calculo_liquida =
           quantize_cents(DSub(ret.body.juros_mora_posteriores, ret.body.ir_calculado))

\* C20 (amended): base_calculo_liquida and valor_liquido_cedivel are the gross
\* total (valor_bruto_precatorio, the corrected principal) minus the computed
\* tax, quantized to cents; the tax itself is computed on juros_mora_posteriores.
C20_NetOfGross ==
    (op = "calcular" /\ ret.status = 200)
    => LET out == ret.body
       IN  /\ out.valor_bruto_precatorio = out.principal_atualizado
           /\ out.base_calculo_liquida =
                  quantize_cents(DSub(out.valor_bruto_precatorio, out.ir_calculado))
           /\ out.valor_liquido_cedivel = out.base_calculo_liquida
           /\ out.ir_calculado =
                  calcular_ir(arg.incide_ir, out.juros_mora_posteriores, arg.ir_rate,
                              arg.tabela_ir).ir

\* 10.00 over two months of 5% with 1% interest: gross 11.24, interest 0.22
\* taxed at 12.5% (0.03, rounded half to even from 0.0275): net 11.21
C20_Witness ==
    /\ op = "calcular"
    /\ ret.status = 200
    /\ arg.principal = Dec(1000, 2)
    /\ arg.incide_ir = "Percentual informado"
    /\ arg.ir_rate = Some(Dec(125, 3))
    /\ ret.body.juros_mora_posteriores = Dec(22, 2)
    /\ ret.body.valor_bruto_precatorio = Dec(1124, 2)
    /\ ret.body.ir_calculado = Dec(3, 2)
    /\ ret.body.base_calculo_liquida = Dec(1121, 2)

----------------------------------------------------------------------------
(* Index Series Source: the range served *)

\* C21 (as claimed): get_series returns exactly one value per calendar month m
\* with month(start) <= m < month(end), in chronological order; the month that
\* contains end is never included and the result is empty when end is not
\* after start.
C21_SeriesRange ==
    (op = "get_series" /\ ~ret.raised)
    => LET meses == month_range(<<arg.start[1], arg.start[2]>>,
                                <<arg.end[1], arg.end[2]>>)
           cache == load(arg.csv).value
       IN  /\ Len(ret.value) = Len(meses)
           /\ \A i \in DOMAIN meses :
                  ret.value[i] = cache[<<arg.indice, meses[i][1], meses[i][2]>>]
           /\ ~DateLt3(arg.start, arg.end) => ret.value = <<>>

----------------------------------------------------------------------------
(* Numeric Kernel: order of the factors *)

\* C22 (as claimed): any two orderings of the same monthly rates, with the same
\* extra rate, give the identical product, with compose_factors and with
\* Indices.product.
C22_OrderIndependent ==
    op = "compose_long"
    => LET base == SeriesPrefix \o SeriesSuffix
       IN  /\ ret.fator = compose_factors_ctx(base, arg.extra)
           /\ ret.product = product_ctx(TableOf(base),
                                        month_range(<<2020, 1>>, <<2020, Len(base) + 1>>))

----------------------------------------------------------------------------
(* Tax Resolver: monotonic bracket resolution *)

\* the bases b of the model, at or above the base of the call, that the table
\* of the call resolves to the same bracket
SameBracketAbove ==
    {b \in Bases : /\ DLe(arg.base_juros, b)
                   /\ faixa_aplicada(Val(arg.tabela_ir), b)
                        = faixa_aplicada(Val(arg.tabela_ir), arg.base_juros)}

TableCall ==
    /\ op = "calcular_ir"
    /\ arg.modo \in {"RRA", "Tabela progressiva"}
    /\ ~IsNone(arg.tabela_ir)
    /\ Len(Val(arg.tabela_ir)) > 0

\* C23 (as claimed): for a fixed bracket table, the tax is a non-decreasing
\* function of the base over the bases that resolve to the same bracket,
\* those above the highest ceiling included.
C23_Monotonic ==
    TableCall
    => \A b \in SameBracketAbove :
           DLe(ret.value.ir,
               calcular_ir(arg.modo, b, arg.ir_rate, arg.tabela_ir).ir)

\* C23 (amended): for a fixed bracket table, the tax is a non-decreasing
\* function of the base over the bases that resolve to the same bracket, those
\* above the highest ceiling included, when the aliquota of that bracket is not
\* negative.
C23_MonotonicNonNegativeRate ==
    (TableCall
     /\ DLe(Zero, faixa_aplicada(Val(arg.tabela_ir), arg.base_juros).aliquota))
    => \A b \in SameBracketAbove :
           DLe(ret.value.ir,
               calcular_ir(arg.modo, b, arg.ir_rate, arg.tabela_ir).ir)

\* two bases above the highest ceiling, taxed by the top bracket, the larger
\* base owing strictly more
C23_Witness ==
    /\ TableCall
    /\ DLt(Zero, faixa_aplicada(Val(arg.tabela_ir), arg.base_juros).aliquota)
    /\ \A i \in DOMAIN Val(arg.tabela_ir) :
           DLt(Val(arg.tabela_ir)[i].ate, arg.base_juros)
    /\ \E b \in SameBracketAbove :
           DLt(ret.value.ir,
               calcular_ir(arg.modo, b, arg.ir_rate, arg.tabela_ir).ir)

----------------------------------------------------------------------------
(* Batch runner: the parser of the console output *)

\* the run of app_4.py that call_app4_and_parse started
RunOfCall ==
    calcular_app4(arg.principal, arg.ano_venc, arg.indices,
                  Some(last_available_month(arg.indices)), Dec(2, 2),
                  arg.juros_mora_ant, "formacao", arg.override_antes,
                  arg.override_pos_ipca)

\* the number that f"{x:.8f}" prints
Printed8(x) == float_of(format_fixed(x, 8)).value

\* C27 (as claimed): parse_app4_output recovers from the console output of
\* app_4.calcular the factors that were printed: fator_ipcae_antes,
\* fator_ipcae_pos and, from the line 'Fator 2% a.a. (simples) ...: F  (meses
\* para 2%=N)', fator_juros_2aa_simples = F and meses_para_2aa = N.
C27_ParserRecoversFactors ==
    (op = "call_app4_and_parse" /\ ~RunOfCall.raised)
    => /\ ~ret.raised
       /\ ret.value.fator_ipcae_antes = Some(Printed8(RunOfCall.value.fator_antes))
       /\ ret.value.fator_ipcae_pos = Some(Printed8(RunOfCall.value.fator_ipca_pos))
       /\ ret.value.fator_juros_2aa_simples
            = Some(Printed8(RunOfCall.value.fator_juros_simples_pos))
       /\ ret.value.meses_para_2aa = Some(MaxOf(RunOfCall.value.meses_pos - 1, 0))

----------------------------------------------------------------------------
(* Batch runner: what is persisted *)

\* the run of app_4.py for a row of the batch
RunOfRow(row) ==
    calcular_app4(row.principal, row.ano_base, arg.indices,
                  Some(last_available_month(arg.indices)), Dec(2, 2),
                  row.juros_mora, "formacao", arg.override_antes,
                  arg.override_pos_ipca)

\* C24 (as claimed): in fetch_and_process a summary row is inserted and
\* process_calculo set to true for a record only if the app_4 run for that
\* record succeeded and every one of the twelve parsed fields was recovered;
\* when app_4 fails nothing is written for the record and it stays unprocessed.
C24_PersistedOnlyAfterSuccess ==
    [][\A id \in Ids :
          (~db.process_calculo[id] /\ db'.process_calculo[id])
          => /\ ~RunOfRow(batch.rows[batch.i]).raised
             /\ \A k \in ResultFields : ~IsNone(batch.result[k])]_vars

\* a reader of the two tables sees the summary row of a record exactly when it
\* sees its process_calculo set
Atomic ==
    \A id \in Ids :
        (\E r \in db.resumo : r.cpf = Detalhe(id).cpf) <=> db.process_calculo[id]

\* C26: insert_calc_result is atomic per record: the summary row and
\* process_calculo = true of a record become visible together or not at all;
\* a failure of the INSERT, of the UPDATE or of the commit leaves neither, with
\* nothing pending, and the loop goes on with the following record.
C26_AtomicPerRecord ==
    /\ []Atomic
    /\ [][(batch.pc \in {"insert", "update", "commit"} /\ batch' # batch)
          => \/ batch'.pc \in {"update", "commit"} /\ batch'.i = batch.i
             \/ /\ batch'.pc = "loop" /\ batch'.i = batch.i + 1
                /\ db'.tx = EmptyTx
                /\ (db' = db \/ db' = rollback(db) \/ db' = commit(db))]_vars

\* the first record failed and was rolled back, the second one was processed
\* and committed
C26_Witness ==
    /\ op = "fetch_and_process" /\ batch.pc = "done" /\ Len(batch.rows) = 2
    /\ batch.rows[1].id = 1
    /\ ~db.process_calculo[1] /\ ~\E r \in db.resumo : r.cpf = Detalhe(1).cpf
    /\ db.process_calculo[2] /\ \E r \in db.resumo : r.cpf = Detalhe(2).cpf

----------------------------------------------------------------------------
(* Index Series Source: one provider shared by several threads *)

\* C25 (as claimed): under any interleaving of concurrent get_series calls on
\* one IndicesProvider, each call returns the series it returns when run alone,
\* and fails only when it fails alone.
C25_SameAsAlone ==
    \A t \in Threads :
        LET th == threads[t]
            alone == get_series(provider.csv, th.indice, th.start, th.end)
        IN  /\ th.pc = "returned" => (~alone.raised /\ th.series = alone.value)
            /\ th.pc = "raised" => (alone.raised /\ alone.error = th.error)

----------------------------------------------------------------------------
(* Month-range enumeration *)

\* the date the loop of month_range tests in its round i (1-based): start in
\* the first round, then the first day of the month after the last appended
RoundDate(i) == IF i = 1 THEN arg.start ELSE add_months_date(arg.start, i - 1)

\* C28: month_range(start, end_exclusive) terminates and returns, ascending
\* with no gap and no duplicate, exactly the MonthKeys reached by stepping one
\* month at a time from start while the current date is < end_exclusive; for
\* two first-of-month dates with start < end its length is
\* 12*(end.year - start.year) + (end.month - start.month); it is empty when
\* start >= end; the same arguments give the same sequence again.
C28_MonthRange ==
    op = "month_range" =>
        /\ \A i \in 1..Len(ret) :
              /\ date_lt(RoundDate(i), arg.end_exclusive)
              /\ ret[i] = <<RoundDate(i)[1], RoundDate(i)[2]>>
        /\ ~date_lt(RoundDate(Len(ret) + 1), arg.end_exclusive)
        /\ \A i \in 1..(Len(ret) - 1) :
              /\ ret[i + 1] = add_months(ret[i], 1)
              /\ DateLt(ret[i], ret[i + 1])
        /\ \A i, j \in 1..Len(ret) : ret[i] = ret[j] => i = j
        /\ (arg.start[3] = 1 /\ arg.end_exclusive[3] = 1
              /\ date_lt(arg.start, arg.end_exclusive))
           => Len(ret) = 12 * (arg.end_exclusive[1] - arg.start[1])
                         + (arg.end_exclusive[2] - arg.start[2])
        /\ ~date_lt(arg.start, arg.end_exclusive) => ret = <<>>
        /\ ret = month_range_date(arg.start, arg.end_exclusive)

\* a range of first-of-month dates that crosses two ends of year
C28_Witness ==
    /\ op = "month_range"
    /\ arg.start = <<2019, 7, 1>> /\ arg.end_exclusive = <<2021, 2, 1>>
    /\ Len(ret) = 19
    /\ ret[1] = <<2019, 7>> /\ ret[7] = <<2020, 1>> /\ ret[19] = <<2021, 1>>

----------------------------------------------------------------------------
(* Index data: from the percentage of the spreadsheet to the fraction served *)

\* C29: a monthly variation given as the percentage p reaches the calculator
\* as the fraction p/100: parse_percent_to_fraction turns the cell of p into
\* p/100, and a fraction stored in the CSV is returned unchanged by
\* IndicesProvider.get_series.
C29_PercentServedAsFraction ==
    /\ op = "parse_percent_to_fraction" => ret = Some(Dec(arg.p.m, arg.p.e + 2))
    /\ op = "serve_fraction"
       => ret = [raised |-> FALSE, value |-> <<arg.variacao_mensal>>]

----------------------------------------------------------------------------
(* Tax Resolver: the sign of the withheld tax *)

\* C30: the withheld tax is never negative: whatever the policy, the rate
\* and the bracket table, and for every taxable base that /calcular passes
\* (juros_mora_posteriores), ir_calculado >= 0.
C30_TaxNeverNegative ==
    (op = "calcular" /\ ret.status = 200) => DLe(Zero, ret.body.ir_calculado)

====
